---------------------------- MODULE Spec2Model ----------------------------
(***************************************************************************)
(* Prompt synchronisation and dialog automation of the Cisco XR / VXR      *)
(* drivers (netmiko/cisco/cisco_vxr_ssh.py, netmiko/cisco/cisco_xr.py).    *)
(*                                                                         *)
(* Text is a sequence of atoms.  An atom stands for a fixed run of         *)
(* characters ("Router", "#", " ", "\n", "Last", ...); every literal the   *)
(* code searches for is a sequence of whole atoms, so substring search,    *)
(* strip, split and concatenation on atoms are those of the code on        *)
(* characters.                                                             *)
(*                                                                         *)
(* The clock counts ticks of 50 ms: time.sleep(d) advances it by d, every  *)
(* other statement takes no time (the simulated clock of a scripted       *)
(* channel).                                                               *)
(***************************************************************************)
EXTENDS Integers, Sequences, FiniteSets, TLC

VARIABLES
    \* ---- the channel (remote_conn) and the clock
    closed,         \* remote_conn.closed
    chan,           \* text the device has sent and the program has not read yet
    io,             \* every channel operation the program has made, in order
    now,            \* time.time(), in ticks
    \* ---- the session
    read_timeout,   \* self.read_timeout, in ticks
    \* ---- the running call: its position, locals and result
    pc,
    pattern,        \* read_until_pattern: the pattern searched for
    output,         \* the accumulator of the running wait
    start_time,
    current_time,
    closed_at_check,\* what the last evaluation of the loop condition read in remote_conn.closed
    outcome,        \* "none" while running, else how the call ended
    ret,            \* the value returned (text), <<>> when the call raised
    \* ---- find_prompt
    prompt,         \* the local of find_prompt: the stripped text of the last read
    \* ---- the environment
    emitted,        \* number of chunks the device has emitted so far
    wire,           \* replies of the device that are still on their way to the channel
    banner,         \* the transient banner the device still has to print (<<>>: none)
    \* ---- commit
    impl,           \* the class whose commit runs: "xr" (CiscoXrBase) or "vxr" (CiscoVxrSSH)
    args,           \* the arguments of the commit call
    command_string, \* the command text commit has built
    new_data,       \* the reply of the last exchange
    msg,            \* the message of the exception raised
    commit_reply,   \* the output gathered when commit classifies the device's reply
    \* ---- the device's CLI mode and the config-mode calls
    mode,           \* the device's mode: exec, admin, config or admin-config
    asking,         \* the device waits for the answer to its "Uncommitted" question
    dirty,          \* the device holds uncommitted changes
    skip_check,     \* exit_config_mode(skip_check=...)
    cmd_verify,     \* self.global_cmd_verify is not False
    pre_check,      \* check_config_mode() before config_mode()
    post_check,     \* check_config_mode() after exit_config_mode()
    \* ---- the login dialogs
    dialog,         \* the login method that runs
    max_loops,      \* telnet_login(max_loops=...)
    loop_i,         \* telnet_login: i, the inner iteration counter
    outer,          \* telnet_login: the outer passes completed
    count,          \* telnet_login: count of the initial-configuration-dialog loop
    my_password,    \* telnet_login: the password chosen at the username prompt
    sent,           \* the passwords written in the current iteration
    at_bmc,         \* the last username was written at the BMC login banner
    is_spitfire,    \* telnet_login: a spitfire marker has been seen
    eof,            \* a channel operation has raised EOFError
    iters,          \* inner iterations begun
    resets,         \* bare returns written after an outer pass
    last_reads,     \* reads of the last check
    \* ---- the arguments of the running wait and send_command
    timeout_arg,    \* the read_timeout argument of the call, in ticks
    expect_string,  \* send_command(expect_string=...), "None" for None
    opts,           \* send_command: auto_find_prompt, strip_prompt, strip_command
    stack,          \* the calls that wait for a nested call
    \* ---- the session
    method,         \* the operation the caller runs on the session
    base_prompt,    \* self.base_prompt
    scs             \* send_config_set: running, the commands left, exit_config_mode, the output so far

chanVars == <<closed, chan, io, now>>
callVars == <<pc, pattern, output, start_time, current_time, closed_at_check, outcome, ret>>
fpVars   == <<prompt, wire, banner>>
cmVars   == <<impl, args, command_string, new_data, msg, commit_reply>>
devVars  == <<mode, asking, dirty>>
cfgVars  == <<devVars, skip_check, cmd_verify, pre_check, post_check>>
loginVars == <<dialog, max_loops, loop_i, outer, count, my_password, sent, at_bmc, is_spitfire, eof,
               iters, resets, last_reads>>
sendVars == <<expect_string, opts, stack>>
sessVars == <<method, base_prompt>>
vars == <<closed, chan, io, now, read_timeout, pc, pattern, output, start_time,
          current_time, closed_at_check, outcome, ret, emitted, prompt, wire, banner,
          impl, args, command_string, new_data, msg, commit_reply, mode, asking, dirty,
          skip_check, cmd_verify, pre_check, post_check, dialog, max_loops, loop_i,
          outer, count, my_password, sent, at_bmc, is_spitfire, eof, iters, resets, last_reads,
          timeout_arg, expect_string, opts, stack, method, base_prompt, scs>>

\* what the actions of one read_until_pattern call leave alone
notWait == <<fpVars, cmVars, cfgVars, loginVars>>

---------------------------------------------------------------------------
(* Text helpers                                                            *)

NL == "\n"
CR == "\r"
SP == " "

IsSpace(a) == a \in {" ", "\n", "\r", "\t"}

\* the device's hostname; base_prompt holds it once set_base_prompt has run
Hostname == <<"Router">>

\* no send_config_set call runs
NoSet == [on |-> FALSE, todo |-> <<>>, exit |-> FALSE, saved |-> <<>>]

\* sub occurs in s (Python: sub in s)
Contains(sub, s) ==
    \E i \in 0..(Len(s) - Len(sub)) : SubSeq(s, i + 1, i + Len(sub)) = sub

EndsWith(s, suf) ==
    /\ Len(s) >= Len(suf)
    /\ SubSeq(s, Len(s) - Len(suf) + 1, Len(s)) = suf

\* Python's $ without re.M: at the end of the string, or before a final newline
EndsWithRe(s, suf) == EndsWith(s, suf) \/ EndsWith(s, suf \o <<NL>>)

RECURSIVE LStrip(_)
LStrip(s) == IF s # <<>> /\ IsSpace(Head(s)) THEN LStrip(Tail(s)) ELSE s

RECURSIVE RStrip(_)
RStrip(s) ==
    IF s # <<>> /\ IsSpace(s[Len(s)]) THEN RStrip(SubSeq(s, 1, Len(s) - 1)) ELSE s

Strip(s) == LStrip(RStrip(s))

\* str.lower() on the atoms the device prints
LowerAtom(a) ==
    CASE a = "Last"      -> "last"
      [] a = "Executing" -> "executing"
      [] a = "Router"    -> "router"
      [] a = "Tue"       -> "tue"
      [] OTHER           -> a

Lower(s) == [i \in 1..Len(s) |-> LowerAtom(s[i])]

\* normalize_linefeeds: \r\n and a lone \r become \n
RECURSIVE NormalizeLinefeeds(_)
NormalizeLinefeeds(s) ==
    IF s = <<>> THEN <<>>
    ELSE IF Len(s) >= 2 /\ s[1] = CR /\ s[2] = NL
         THEN <<NL>> \o NormalizeLinefeeds(SubSeq(s, 3, Len(s)))
    ELSE IF s[1] = CR THEN <<NL>> \o NormalizeLinefeeds(Tail(s))
    ELSE <<s[1]>> \o NormalizeLinefeeds(Tail(s))

\* s.split("\n")[-1]
RECURSIVE LastLine(_)
LastLine(s) ==
    IF \E i \in 1..Len(s) : s[i] = NL THEN LastLine(Tail(s)) ELSE s


---------------------------------------------------------------------------
(* Constants of the program and bounds of the model                        *)

\* LOOP_DELAY = 0.1 s, in ticks of 50 ms
LOOP_DELAY == 2

\* the 3 s of time.sleep(LOOP_DELAY + 3), in ticks of 50 ms
EXTRA_DELAY == 60

\* largest self.read_timeout tried, in ticks
MaxTimeout == 5

\* read_timeout=1800 of the signatures: 1800 s in ticks of 50 ms
READ_TIMEOUT_DEFAULT == 36000

\* the defaults of send_command's flags
DefaultOpts == [auto_find_prompt |-> TRUE, strip_prompt |-> TRUE, strip_command |-> TRUE]
\* number of chunks the device may emit during one wait
MaxChunks == 2

---------------------------------------------------------------------------
(* re.search(pattern, output) for the patterns the drivers wait for        *)

Search(p, s) ==
    CASE p = "[>#]"    -> \E i \in 1..Len(s) : s[i] \in {">", "#"}
      [] p = "[#\\$]"  -> \E i \in 1..Len(s) : s[i] \in {"#", "$"}
      [] p = "\\)#$"   -> EndsWithRe(s, <<")", "#">>)
      [] p = "#$"      -> EndsWithRe(s, <<"#">>)
      [] OTHER         -> FALSE

WaitPatterns == {"[>#]", "\\)#$"}

\* the clock readings at which a call may begin
StartTimes == {0, 3}

\* what the device may send while the program waits
WaitChunks == { <<"Router">>, <<"#">>, <<"(", "config", ")">>, <<NL>> }

---------------------------------------------------------------------------
(* The arguments of commit.  confirm_delay (Optional[int]) is <<>> for     *)
(* None and <<n>> for the number n; commit_error_dialog_dict is absent     *)
(* (None) or a mapping from marker texts to reply texts.                   *)

NoDict == [present |-> FALSE, map |-> <<>>]

\* the defaults of the signature
NoArgs == [confirm |-> FALSE, confirm_delay |-> <<>>, comment |-> <<>>, label |-> <<>>,
           replace |-> FALSE, best_effort |-> FALSE, force |-> FALSE,
           commit_error_dialog_dict |-> NoDict]

---------------------------------------------------------------------------
(* The channel                                                             *)

Ev(op, data) == [op |-> op, data |-> data]

\* read_channel(): everything buffered, non-blocking; buffered text is still
\* readable after the peer has closed
ReadChannel == chan

---------------------------------------------------------------------------
(* CiscoVxrSSH.read_until_pattern                                          *)

\* (mutant) the elapsed time is measured from 0 instead of from start_time
InTime_FromZero == current_time < read_timeout

\* the loop condition:  current_time - start_time < self.read_timeout
\*                      and self.remote_conn.closed == False
InTime == current_time - start_time < read_timeout

\* (mutant) the else branch tests the time before the channel
ElseOutcome_TimeFirst == IF ~InTime THEN "PatternNotFoundException" ELSE "SessionDownException"

\* the while-else branch: which exception is raised
ElseOutcome == IF closed THEN "SessionDownException" ELSE "PatternNotFoundException"

\* the values passed as the read_timeout argument: none, one tick, the largest
\* one tried, or the default of the signature
ArgTimeouts == {0, LOOP_DELAY \div 2, MaxTimeout, READ_TIMEOUT_DEFAULT}

\* start_time = time.time(); current_time = time.time()
RupCall ==
    /\ pc = "idle"
    /\ \E p \in WaitPatterns : pattern' = p
    /\ \E t \in ArgTimeouts : timeout_arg' = t
    /\ output' = <<>>
    /\ start_time' = now
    /\ current_time' = now
    /\ pc' = "rup_loop"
    /\ UNCHANGED <<notWait, chanVars, read_timeout, sessVars, scs, sendVars, closed_at_check, outcome, ret, emitted>>

\* while ... : the condition is evaluated once per iteration
RupLoop ==
    /\ pc = "rup_loop"
    /\ closed_at_check' = (InTime /\ closed)
    /\ pc' = IF InTime /\ ~closed THEN "rup_read" ELSE "rup_else"
    /\ UNCHANGED <<notWait, chanVars, read_timeout, sessVars, scs, sendVars, timeout_arg, pattern, output, start_time,
                   current_time, outcome, ret, emitted>>

\* (mutant) the output is cut where the pattern first matched
ReturnedOutput_ToMatch(p, out) ==
    SubSeq(out, 1, CHOOSE k \in 0..Len(out) :
                     /\ Search(p, SubSeq(out, 1, k))
                     /\ \A j \in 0..(k - 1) : ~Search(p, SubSeq(out, 1, j)))

\* line 122: return output, all that was accumulated
ReturnedOutput(p, out) == out

\* new_data = self.read_channel(); output += new_data; re.search -> return output
RupRead ==
    /\ pc = "rup_read"
    /\ LET chunk == ReadChannel
           out == output \o chunk
       IN  /\ output' = out
           /\ chan' = <<>>
           /\ io' = Append(io, Ev("read", chunk))
           /\ IF Search(pattern, out)
              THEN /\ pc' = "done"
                   /\ outcome' = "return"
                   /\ ret' = ReturnedOutput(pattern, out)
              ELSE /\ pc' = "rup_sleep"
                   /\ UNCHANGED <<outcome, ret>>
    /\ UNCHANGED <<notWait, closed, now, read_timeout, sessVars, scs, sendVars, timeout_arg, pattern, start_time, current_time,
                   closed_at_check, emitted>>

\* (mutant) the wait takes the text read so far for the prompt
RupSleep_SetsPrompt ==
    /\ pc = "rup_sleep"
    /\ now' = now + LOOP_DELAY
    /\ current_time' = now + LOOP_DELAY
    /\ pc' = "rup_loop"
    /\ base_prompt' = output
    /\ UNCHANGED <<notWait, closed, chan, io, read_timeout, method, scs, sendVars, timeout_arg, pattern, output, start_time,
                   closed_at_check, outcome, ret, emitted>>

\* time.sleep(LOOP_DELAY); current_time = time.time()
RupSleep ==
    /\ pc = "rup_sleep"
    /\ now' = now + LOOP_DELAY
    /\ current_time' = now + LOOP_DELAY
    /\ pc' = "rup_loop"
    /\ UNCHANGED <<notWait, closed, chan, io, read_timeout, sessVars, scs, sendVars, timeout_arg, pattern, output, start_time,
                   closed_at_check, outcome, ret, emitted>>

\* else: SessionDownException if remote_conn.closed, else PatternNotFoundException
RupElse ==
    /\ pc = "rup_else"
    /\ outcome' = ElseOutcome
    /\ ret' = <<>>
    /\ pc' = "done"
    /\ UNCHANGED <<notWait, chanVars, read_timeout, sessVars, scs, sendVars, timeout_arg, pattern, output, start_time,
                   current_time, closed_at_check, emitted>>

---------------------------------------------------------------------------
(* The environment of a wait: the device sends text, the peer closes       *)

DeviceEmit ==
    /\ pc # "done"
    /\ ~closed
    /\ emitted < MaxChunks
    /\ \E c \in WaitChunks : chan' = chan \o c
    /\ emitted' = emitted + 1
    /\ UNCHANGED <<notWait, closed, io, now, read_timeout, sessVars, scs, sendVars, timeout_arg, callVars>>

ChannelCloses ==
    /\ pc # "done"
    /\ ~closed
    /\ closed' = TRUE
    /\ UNCHANGED <<notWait, chan, io, now, read_timeout, sessVars, scs, sendVars, timeout_arg, callVars, emitted>>

---------------------------------------------------------------------------
(* Specification of one read_until_pattern call                            *)

\* a session at rest, before the caller's operation starts
InitIdle ==
    /\ closed = FALSE
    /\ chan = <<>>
    /\ io = <<>>
    /\ now \in StartTimes
    /\ read_timeout \in 0..MaxTimeout
    /\ pc = "idle"
    /\ pattern = ""
    /\ output = <<>>
    /\ start_time = 0
    /\ current_time = 0
    /\ closed_at_check = FALSE
    /\ outcome = "none"
    /\ ret = <<>>
    /\ emitted = 0
    /\ prompt = <<>>
    /\ wire = <<>>
    /\ banner = <<>>
    /\ impl = "vxr"
    /\ args = NoArgs
    /\ command_string = <<>>
    /\ new_data = <<>>
    /\ msg = <<>>
    /\ commit_reply = <<>>
    /\ mode = "exec"
    /\ asking = FALSE
    /\ dirty = FALSE
    /\ skip_check = FALSE
    /\ cmd_verify = TRUE
    /\ pre_check = FALSE
    /\ post_check = FALSE
    /\ dialog = "none"
    /\ max_loops = 0
    /\ loop_i = 1
    /\ outer = 0
    /\ count = 0
    /\ my_password = "password"
    /\ sent = <<>>
    /\ at_bmc = FALSE
    /\ is_spitfire = FALSE
    /\ eof = FALSE
    /\ iters = 0
    /\ resets = 0
    /\ last_reads = 0
    /\ timeout_arg = READ_TIMEOUT_DEFAULT
    /\ expect_string = "None"
    /\ opts = DefaultOpts
    /\ stack = <<>>
    /\ base_prompt = Hostname
    /\ scs = NoSet

InitWait ==
    /\ InitIdle
    /\ method = "read_until_pattern"

NextWait ==
    \/ RupCall
    \/ RupLoop
    \/ RupRead
    \/ RupSleep
    \/ RupElse
    \/ DeviceEmit
    \/ ChannelCloses

SpecWait == InitWait /\ [][NextWait]_vars

RupRunning == pc \in {"rup_loop", "rup_read", "rup_sleep", "rup_else"}

\* C1: a read_until_pattern call that ends with the timeout outcome (the channel
\* open, no match) ends no earlier than self.read_timeout after the wait
\* started and no later than that plus LOOP_DELAY; and a call that is still
\* running has never waited longer than that.
C1_TimeoutWindow ==
    /\ (pc = "done" /\ outcome = "PatternNotFoundException")
          => /\ now - start_time >= read_timeout
             /\ now - start_time <= read_timeout + LOOP_DELAY
    /\ RupRunning => now - start_time <= read_timeout + LOOP_DELAY

\* C1 witness: a wait that started late, with a timeout that is no multiple of
\* the poll interval, has read non-matching text and timed out
C1_Witness ==
    /\ pc = "done" /\ outcome = "PatternNotFoundException"
    /\ start_time > 0
    /\ read_timeout % LOOP_DELAY # 0
    /\ output # <<>>
    /\ now - start_time = read_timeout + 1

\* C2 (as claimed): once the channel is closed, the call ends with SessionDown
\* and never with matched output.
C2_Original ==
    (pc = "done" /\ closed) => (outcome = "SessionDownException" /\ ret = <<>>)

\* C2 (amended): a call that finds the channel closed when it evaluates the loop
\* condition, or when the loop has ended, raises SessionDown and returns
\* nothing; the only call that ends otherwise on a closed channel is one whose
\* last loop check still saw the channel open and whose read then matched.
C2_ClosedAtCheck ==
    /\ (pc = "done" /\ closed_at_check) => (outcome = "SessionDownException" /\ ret = <<>>)
    /\ (pc = "done" /\ closed /\ outcome # "SessionDownException")
          => (outcome = "return" /\ ~closed_at_check)

\* C2 witness: SessionDown although the text read so far together with the text
\* still buffered matches the pattern
C2_Witness ==
    /\ pc = "done" /\ outcome = "SessionDownException" /\ closed_at_check
    /\ output # <<>>
    /\ Search(pattern, output \o chan)

---------------------------------------------------------------------------
(* CiscoVxrSSH.write_channel                                               *)

RETURN == <<NL>>

\* the exec prompt of the device
RealPrompt == <<"Router", "#">>

\* super().write_channel raises socket.error on a closed channel, which
\* write_channel turns into SessionDownException
WriteFails == closed

---------------------------------------------------------------------------
(* commit: validation and the command text                                 *)
(* (CiscoXrBase.commit and CiscoVxrSSH.commit)                             *)

QUOTE == "\""

\* s.join of words with single spaces
RECURSIVE Words(_)
Words(ws) ==
    IF Len(ws) = 0 THEN <<>>
    ELSE IF Len(ws) = 1 THEN <<ws[1]>>
    ELSE <<ws[1], SP>> \o Words(Tail(ws))

\* str(n) of a natural number: its decimal digits
Digit(d) == <<"0", "1", "2", "3", "4", "5", "6", "7", "8", "9">>[d + 1]

RECURSIVE Str(_)
Str(n) == IF n < 10 THEN <<Digit(n)>> ELSE Str(n \div 10) \o <<Digit(n % 10)>>

\* s.replace(a, new) for a one-atom a
RECURSIVE Replace(_, _, _)
Replace(s, a, new) ==
    IF s = <<>> THEN <<>>
    ELSE (IF Head(s) = a THEN new ELSE <<Head(s)>>) \o Replace(Tail(s), a, new)

\* truth value of an Optional[int]: None and 0 are false
DelaySet(d) == d # <<>> /\ d[1] # 0

error_marker == Words(<<"Failed", "to">>)
alt_error_marker ==
    Words(<<"One", "or", "more", "commits", "have", "occurred", "from", "other">>)
commit_replace_marker ==
    <<"This commit will replace or remove the entire running configuration">>

\* the three argument checks both classes make
InvalidArguments(a) ==
    \/ a.confirm /\ ~DelaySet(a.confirm_delay)
    \/ DelaySet(a.confirm_delay) /\ ~a.confirm
    \/ a.comment # <<>> /\ a.confirm

\* CiscoVxrSSH only: if comment: if '"' in comment: raise ValueError
InvalidComment(i, a) ==
    /\ i = "vxr"
    /\ a.comment # <<>>
    /\ Contains(<<QUOTE>>, a.comment)

\* (mutant) the check for confirm_delay without confirm is missing
Rejects_NoDelayCheck(i, a) ==
    \/ a.confirm /\ ~DelaySet(a.confirm_delay)
    \/ a.comment # <<>> /\ a.confirm
    \/ InvalidComment(i, a)

\* commit raises ValueError
Rejects(i, a) == InvalidArguments(a) \/ InvalidComment(i, a)

\* (mutant) the comment goes into the command as given
CommentText_Raw(i, c) == c

\* the comment as it goes into the command:
\* CiscoVxrSSH wraps it in quotes, CiscoXrBase takes it as given
CommentText(i, c) ==
    IF i = "vxr" /\ c # <<>> THEN <<QUOTE>> \o c \o <<QUOTE>> ELSE c

\* (mutant) confirm is tested before label
BaseCommand_ConfirmFirst(i, a) ==
    LET comment == CommentText(i, a.comment)
        delay   == IF a.confirm_delay = <<>> THEN <<"None">> ELSE Str(a.confirm_delay[1])
    IN  IF a.confirm
        THEN Words(<<"commit", "confirmed">>) \o <<SP>> \o delay
        ELSE IF a.label # <<>>
        THEN IF comment # <<>>
             THEN Words(<<"commit", "label">>) \o <<SP>> \o a.label \o <<SP, "comment", SP>>
                  \o comment
             ELSE Words(<<"commit", "label">>) \o <<SP>> \o a.label
        ELSE IF comment # <<>>
        THEN Words(<<"commit", "comment">>) \o <<SP>> \o comment
        ELSE <<"commit">>

\* "Select proper command string based on arguments provided"
BaseCommand(i, a) ==
    LET comment == CommentText(i, a.comment)
        delay   == IF a.confirm_delay = <<>> THEN <<"None">> ELSE Str(a.confirm_delay[1])
    IN  IF a.label # <<>>
        THEN IF comment # <<>>
             THEN Words(<<"commit", "label">>) \o <<SP>> \o a.label \o <<SP, "comment", SP>>
                  \o comment
             ELSE IF a.confirm
             THEN Words(<<"commit", "label">>) \o <<SP>> \o a.label \o <<SP, "confirmed", SP>>
                  \o delay
             ELSE Words(<<"commit", "label">>) \o <<SP>> \o a.label
        ELSE IF a.confirm
        THEN Words(<<"commit", "confirmed">>) \o <<SP>> \o delay
        ELSE IF comment # <<>>
        THEN Words(<<"commit", "comment">>) \o <<SP>> \o comment
        ELSE <<"commit">>

\* if force / if best_effort / if replace: command_string.replace("commit", ...)
Modified(a, c) ==
    LET c1 == IF a.force THEN Replace(c, "commit", Words(<<"commit", "force">>)) ELSE c
        c2 == IF a.best_effort
              THEN Replace(c1, "commit", Words(<<"commit", "best-effort">>)) ELSE c1
    IN  IF a.replace THEN Replace(c2, "commit", Words(<<"commit", "replace">>)) ELSE c2

CommandString(i, a) == Modified(a, BaseCommand(i, a))

\* normalize_cmd: command.rstrip() + RETURN
NormalizeCmd(c) == RStrip(c) \o RETURN

---------------------------------------------------------------------------
(* commit: the dialog with the device.  One exchange (a write and the wait *)
(* that follows it) is one step; the device answers a write with any of    *)
(* the texts of CommitAnswers, an empty answer standing for a device that  *)
(* stays silent until the wait times out.  The slow-operation banner of    *)
(* send_command is not among the answers.                                  *)

PromptCfg == <<NL, "Router", "(", "config", ")", "#">>
ConflictText ==
    alt_error_marker \o <<SP, "configuration", SP, "sessions", CR, NL,
                          "Do you wish to proceed", "?", SP, "[no]:", SP>>
FailText == <<"%", SP>> \o error_marker \o <<SP, "commit", CR, NL>> \o PromptCfg
ConfirmText == <<"C", "onfirm", "?", SP, "[y/n]">>
ReplaceText == commit_replace_marker \o <<SP, "[no]:", SP>>

CommitAnswers ==
    { PromptCfg, ConflictText, ConflictText \o FailText, FailText, ConfirmText,
      ReplaceText, <<>> }

\* re.search for the patterns of commit
SearchCommit(p, s) ==
    CASE p = "replace"     -> Contains(commit_replace_marker, s)
      [] p = "\\)#$|alt"   -> EndsWithRe(s, <<")", "#">>) \/ Contains(alt_error_marker, s)
      [] p = "(#|onfirm)"  -> Contains(<<"#">>, s) \/ Contains(<<"onfirm">>, s)
      [] p = "#"           -> Contains(<<"#">>, s)
      [] OTHER             -> Search(p, s)

\* the replies the caller maps the conflict marker to
DialogDicts ==
    { NoDict,
      [present |-> TRUE, map |-> <<>>],
      [present |-> TRUE, map |-> [k \in {alt_error_marker} |-> <<"yes">>]] }

\* (mutant) the mapping of the caller is not consulted
Mapped_Never(a) == FALSE

\* commit_error_dialog_dict is not None and alt_error_marker in commit_error_dialog_dict
Mapped(a) ==
    /\ a.commit_error_dialog_dict.present
    /\ alt_error_marker \in DOMAIN a.commit_error_dialog_dict.map

notCommit == <<chan, now, read_timeout, sessVars, scs, sendVars, timeout_arg, pattern, start_time, current_time,
               closed_at_check, emitted, fpVars, cfgVars, loginVars, impl, args>>

\* One exchange: [clear_buffer,] write_channel(normalize_cmd(cmd)), then the wait
\* for pat.  Leaves the reply in new_data' and the exception, if any, in
\* outcome'.  sanitize: the output passes _sanitize_output (send_command).
Exchange(cmd, pat, clear, sanitize) ==
    LET pre == IF clear THEN Append(io, Ev("clear", <<>>)) ELSE io
    IN  IF WriteFails
        THEN /\ io' = pre
             /\ new_data' = <<>>
             /\ outcome' = "SessionDownException"
             /\ UNCHANGED closed
        ELSE \E r \in CommitAnswers :
               /\ io' = pre \o <<Ev("write", NormalizeCmd(cmd)), Ev("read", r)>>
               /\ IF SearchCommit(pat, r)
                  THEN /\ new_data' = IF sanitize THEN NormalizeLinefeeds(r) ELSE r
                       /\ outcome' = "none"
                       /\ UNCHANGED closed
                  ELSE /\ new_data' = <<>>
                       /\ \/ outcome' = "PatternNotFoundException" /\ UNCHANGED closed
                          \/ outcome' = "SessionDownException" /\ closed' = TRUE

\* _send_command_timing_str(cmd): write, then whatever arrives is returned
TimingExchange(cmd) ==
    IF WriteFails
    THEN /\ new_data' = <<>>
         /\ outcome' = "SessionDownException"
         /\ UNCHANGED io
    ELSE \E r \in CommitAnswers :
           /\ io' = io \o <<Ev("write", NormalizeCmd(cmd)), Ev("read", r)>>
           /\ new_data' = NormalizeLinefeeds(r)
           /\ outcome' = "none"

ConflictPrefix ==
    Words(<<"Commit", "failed", "as", "one", "or", "more", "commits", "have", "occurred",
            "from", "other", "configuration", "sessions:">>) \o <<NL>>
ErrorPrefix ==
    Words(<<"Commit", "failed", "with", "the", "following", "errors:">>) \o <<NL, NL>>

\* (mutant) the message of the conflict error without the output
ConflictMsg_NoOutput(i, out) ==
    ConflictPrefix \o (IF i = "xr" THEN <<NL>> ELSE <<>>)

\* the message of the ConfigCommitError raised for the conflict
ConflictMsg(i, out) ==
    ConflictPrefix \o (IF i = "xr" THEN <<NL>> ELSE <<>>) \o out

\* (mutant) the check for the failure marker is missing
FinalOutcome_NoCheck(out) == "return"

\* if error_marker in output: raise ConfigCommitError ... return output
FinalOutcome(out) ==
    IF Contains(error_marker, out) THEN "ConfigCommitError" ELSE "return"

\* (mutant) the arguments are checked after the first write
CmCall_WriteFirst ==
    /\ pc = "idle"
    /\ io' = Append(io, Ev("write", RETURN))
    /\ IF Rejects(impl, args)
       THEN /\ outcome' = "ValueError"
            /\ pc' = "done"
            /\ UNCHANGED <<command_string, output>>
       ELSE /\ command_string' = CommandString(impl, args)
            /\ output' = <<>>
            /\ pc' = IF impl = "xr" THEN "xr_cfg" ELSE "vx_send"
            /\ UNCHANGED outcome
    /\ UNCHANGED <<notCommit, closed, ret, new_data, msg, commit_reply>>

\* the argument checks and the command text
CmCall ==
    /\ pc = "idle"
    /\ IF Rejects(impl, args)
       THEN /\ outcome' = "ValueError"
            /\ pc' = "done"
            /\ UNCHANGED <<command_string, output>>
       ELSE /\ command_string' = CommandString(impl, args)
            /\ output' = <<>>
            /\ pc' = IF impl = "xr" THEN "xr_cfg" ELSE "vx_send"
            /\ UNCHANGED outcome
    /\ UNCHANGED <<notCommit, closed, io, ret, new_data, msg, commit_reply>>

\* where a step goes: on, or out with the exception
\* (mutant) the call goes on after an exception of its wait
Goto_Continue(next) == pc' = next

\* an exception of the wait or of the check leaves the call; else it goes on
Goto(next) == pc' = IF outcome' = "none" THEN next ELSE "done"

---------------------------------------------------------------------------
(* CiscoXrBase.commit                                                      *)

CfgEntry == <<"config", SP, "terminal", NL>> \o PromptCfg

\* output = self.config_mode(): the mode check, and the entry when the device is
\* not in config mode yet
XrConfigMode ==
    /\ pc = "xr_cfg"
    /\ IF WriteFails
       THEN /\ outcome' = "SessionDownException"
            /\ UNCHANGED <<io, output, closed>>
       ELSE \/ /\ io' = io \o <<Ev("write", RETURN), Ev("read", PromptCfg)>>
               /\ output' = <<>>
               /\ UNCHANGED <<outcome, closed>>
            \/ /\ io' = io \o <<Ev("write", RETURN), Ev("read", <<NL>> \o RealPrompt),
                                Ev("write", NormalizeCmd(Words(<<"config", "terminal">>))),
                                Ev("read", CfgEntry),
                                Ev("write", RETURN), Ev("read", PromptCfg)>>
               /\ output' = CfgEntry
               /\ UNCHANGED <<outcome, closed>>
            \/ /\ io' = io \o <<Ev("write", RETURN), Ev("read", <<>>)>>
               /\ \/ outcome' = "PatternNotFoundException" /\ UNCHANGED closed
                  \/ outcome' = "SessionDownException" /\ closed' = TRUE
               /\ UNCHANGED output
            \/ /\ io' = io \o <<Ev("write", RETURN), Ev("read", <<NL>> \o RealPrompt),
                                Ev("write", NormalizeCmd(Words(<<"config", "terminal">>))),
                                Ev("read", <<NL>> \o RealPrompt),
                                Ev("write", RETURN), Ev("read", <<NL>> \o RealPrompt)>>
               /\ outcome' = "ConfigModeEnterError"
               /\ UNCHANGED <<output, closed>>
    /\ Goto("xr_send")
    /\ UNCHANGED <<notCommit, ret, command_string, new_data, msg, commit_reply>>

\* the commit command: _send_command_str with the banner or "(#|onfirm)" expected
XrSend ==
    /\ pc = "xr_send"
    /\ Exchange(command_string, IF args.replace THEN "replace" ELSE "(#|onfirm)",
                FALSE, TRUE)
    /\ LET asked == IF args.replace THEN Contains(commit_replace_marker, new_data')
                    ELSE Contains(<<"onfirm">>, new_data')
       IN  /\ output' = IF outcome' = "none" /\ asked THEN output \o new_data' ELSE output
           /\ Goto(IF asked THEN "xr_confirm" ELSE "xr_gather")
    /\ UNCHANGED <<notCommit, ret, command_string, msg, commit_reply>>

\* the confirmation: "yes" on the replace path, "y" after a confirm sub-prompt
XrConfirm ==
    /\ pc = "xr_confirm"
    /\ Exchange(IF args.replace THEN <<"yes">> ELSE <<"y">>, "#", FALSE, TRUE)
    /\ Goto("xr_gather")
    /\ UNCHANGED <<notCommit, ret, command_string, msg, commit_reply, output>>

\* output += new_data, and the test for the conflict marker
XrGather ==
    /\ pc = "xr_gather"
    /\ LET out == output \o new_data
       IN  /\ commit_reply' = out
           /\ IF Contains(alt_error_marker, out)
              THEN IF Mapped(args)
                   THEN output' = out \o new_data /\ pc' = "xr_resolve"
                   ELSE output' = out /\ pc' = "xr_decline"
              ELSE output' = out /\ pc' = "cm_final"
    /\ UNCHANGED <<notCommit, closed, io, outcome, ret, command_string, new_data, msg>>

\* the mapped reply is sent and the config prompt awaited
XrResolve ==
    /\ pc = "xr_resolve"
    /\ Exchange(args.commit_error_dialog_dict.map[alt_error_marker], "\\)#$", FALSE, TRUE)
    /\ output' = IF outcome' = "none" THEN output \o new_data' ELSE output
    /\ Goto("cm_final")
    /\ UNCHANGED <<notCommit, ret, command_string, msg, commit_reply>>

\* "Other commits occurred, don't proceed with commit":
\* output += self._send_command_timing_str("no", ...)
XrDecline ==
    /\ pc = "xr_decline"
    /\ TimingExchange(<<"no">>)
    /\ output' = IF outcome' = "none" THEN output \o new_data' ELSE output
    /\ Goto("cm_raise")
    /\ UNCHANGED <<notCommit, closed, ret, command_string, msg, commit_reply>>

---------------------------------------------------------------------------
(* CiscoVxrSSH.commit                                                      *)

\* replace: write_channel(command) and read_until_pattern(commit_replace_marker);
\* else: send_command_expect(command, expect_string = r'\)#$' + "|" + alt_error_marker)
VxSend ==
    /\ pc = "vx_send"
    /\ IF args.replace
       THEN Exchange(command_string, "replace", FALSE, FALSE)
       ELSE Exchange(command_string, "\\)#$|alt", TRUE, TRUE)
    /\ output' = IF outcome' = "none" THEN output \o new_data' ELSE output
    /\ Goto(IF args.replace THEN "vx_yes" ELSE "vx_classify")
    /\ UNCHANGED <<notCommit, ret, command_string, msg, commit_reply>>

\* output += self.send_command_expect("yes", ...)
VxYes ==
    /\ pc = "vx_yes"
    /\ Exchange(<<"yes">>, "\\)#$|alt", TRUE, TRUE)
    /\ output' = IF outcome' = "none" THEN output \o new_data' ELSE output
    /\ Goto("vx_classify")
    /\ UNCHANGED <<notCommit, ret, command_string, msg, commit_reply>>

\* if alt_error_marker in output: ... the mapped reply, or "no"
VxClassify ==
    /\ pc = "vx_classify"
    /\ commit_reply' = output
    /\ pc' = IF Contains(alt_error_marker, output)
             THEN IF Mapped(args) THEN "vx_resolve" ELSE "vx_decline"
             ELSE "cm_final"
    /\ UNCHANGED <<notCommit, closed, io, output, outcome, ret, command_string,
                   new_data, msg>>

\* self.write_channel(self.normalize_cmd(marker_value));
\* output += self.read_until_pattern(pattern=r'\)#$')
VxResolve ==
    /\ pc = "vx_resolve"
    /\ Exchange(args.commit_error_dialog_dict.map[alt_error_marker], "\\)#$", FALSE, FALSE)
    /\ output' = IF outcome' = "none" THEN output \o new_data' ELSE output
    /\ Goto("cm_final")
    /\ UNCHANGED <<notCommit, ret, command_string, msg, commit_reply>>

\* self.write_channel(self.normalize_cmd("no"));
\* output += self.read_until_pattern(pattern=r'\)#$')
VxDecline ==
    /\ pc = "vx_decline"
    /\ Exchange(<<"no">>, "\\)#$", FALSE, FALSE)
    /\ output' = IF outcome' = "none" THEN output \o new_data' ELSE output
    /\ Goto("cm_raise")
    /\ UNCHANGED <<notCommit, ret, command_string, msg, commit_reply>>

---------------------------------------------------------------------------
(* both classes: the end of commit                                         *)

\* raise ConfigCommitError("Commit failed as one or more commits have occurred
\* from other configuration sessions: ... {output}")
CmRaise ==
    /\ pc = "cm_raise"
    /\ msg' = ConflictMsg(impl, output)
    /\ outcome' = "ConfigCommitError"
    /\ pc' = "done"
    /\ UNCHANGED <<notCommit, closed, io, output, ret, command_string, new_data,
                   commit_reply>>

\* if error_marker in output: raise ConfigCommitError(...); return output
CmFinal ==
    /\ pc = "cm_final"
    /\ outcome' = FinalOutcome(output)
    /\ IF outcome' = "return"
       THEN ret' = output /\ UNCHANGED msg
       ELSE msg' = ErrorPrefix \o output /\ UNCHANGED ret
    /\ pc' = "done"
    /\ UNCHANGED <<notCommit, closed, io, output, command_string, new_data, commit_reply>>

\* the peer closes the channel between two steps of commit
CommitChannelCloses ==
    /\ pc \notin {"idle", "done"}
    /\ ~closed
    /\ closed' = TRUE
    /\ UNCHANGED <<notCommit, io, pc, output, outcome, ret, command_string, new_data,
                   msg, commit_reply>>

Comments == { <<>>, <<"fix">>, <<"a", QUOTE, "b">>, <<"first", SP, "commit">> }
Labels == { <<>>, <<"L">> }
Delays == { <<>>, <<0>>, <<30>> }

CommitArgs ==
    [confirm : BOOLEAN, confirm_delay : Delays, comment : Comments, label : Labels,
     replace : BOOLEAN, best_effort : BOOLEAN, force : BOOLEAN,
     commit_error_dialog_dict : DialogDicts]

InitCommit ==
    /\ closed \in BOOLEAN
    /\ chan \in {<<>>, PromptCfg}
    /\ io = <<>>
    /\ now = 0
    /\ read_timeout = MaxTimeout
    /\ pc = "idle"
    /\ pattern = ""
    /\ output = <<>>
    /\ start_time = 0
    /\ current_time = 0
    /\ closed_at_check = FALSE
    /\ outcome = "none"
    /\ ret = <<>>
    /\ emitted = 0
    /\ prompt = <<>>
    /\ wire = <<>>
    /\ banner = <<>>
    /\ impl \in {"xr", "vxr"}
    /\ args \in CommitArgs
    /\ command_string = <<>>
    /\ new_data = <<>>
    /\ msg = <<>>
    /\ commit_reply = <<>>
    /\ mode = "exec"
    /\ asking = FALSE
    /\ dirty = FALSE
    /\ skip_check = FALSE
    /\ cmd_verify = TRUE
    /\ pre_check = FALSE
    /\ post_check = FALSE
    /\ dialog = "none"
    /\ max_loops = 0
    /\ loop_i = 1
    /\ outer = 0
    /\ count = 0
    /\ my_password = "password"
    /\ sent = <<>>
    /\ at_bmc = FALSE
    /\ is_spitfire = FALSE
    /\ eof = FALSE
    /\ iters = 0
    /\ resets = 0
    /\ last_reads = 0
    /\ timeout_arg = READ_TIMEOUT_DEFAULT
    /\ expect_string = "None"
    /\ opts = DefaultOpts
    /\ stack = <<>>
    /\ base_prompt = Hostname
    /\ scs = NoSet
    /\ method = "commit"

NextCommit ==
    \/ CmCall
    \/ XrConfigMode
    \/ XrSend
    \/ XrConfirm
    \/ XrGather
    \/ XrResolve
    \/ XrDecline
    \/ VxSend
    \/ VxYes
    \/ VxClassify
    \/ VxResolve
    \/ VxDecline
    \/ CmRaise
    \/ CmFinal
    \/ CommitChannelCloses

SpecCommit == InitCommit /\ [][NextCommit]_vars

\* the arguments were accepted: commit has gone past its checks
Accepted == pc # "idle" /\ outcome # "ValueError"

\* commit has written this command
Written(cmd) == \E i \in 1..Len(io) : io[i] = Ev("write", NormalizeCmd(cmd))

\* commit has ended after finding the conflict marker in the gathered output,
\* with no reply mapped to it
Declined ==
    /\ pc = "done"
    /\ Contains(alt_error_marker, commit_reply)
    /\ ~Mapped(args)

\* C4 (as claimed): on a channel that stays open, a conflict with no mapped
\* reply makes commit send "no" and end with ConfigCommitError, whose message
\* contains the marker.
C4_Original ==
    (Declined /\ ~closed)
      => /\ Written(<<"no">>)
         /\ outcome = "ConfigCommitError"
         /\ Contains(alt_error_marker, msg)

\* C4 (amended): commit sends "no" (unless the channel is already closed) and
\* raises ConfigCommitError with the marker in its message, except when the
\* exchange of the "no" fails: SessionDownException on a closed channel, and in
\* CiscoVxrSSH PatternNotFoundException when no config prompt follows the "no".
C4_DeclineOutcome ==
    Declined
      => /\ Written(<<"no">>) \/ (closed /\ outcome = "SessionDownException")
         /\ outcome \in {"ConfigCommitError", "SessionDownException",
                         "PatternNotFoundException"}
         /\ outcome = "ConfigCommitError"
              => /\ Written(<<"no">>)
                 /\ Contains(alt_error_marker, msg)
                 /\ Contains(commit_reply, msg)
         /\ outcome = "PatternNotFoundException"
              => /\ impl = "vxr"
                 /\ Written(<<"no">>)
                 /\ ~EndsWithRe(io[Len(io)].data, <<")", "#">>)
         /\ outcome = "SessionDownException" => closed

\* C4 witness: the conflict was declined and ConfigCommitError raised
C4_Witness ==
    /\ Declined /\ ~closed
    /\ outcome = "ConfigCommitError"
    /\ Written(<<"no">>)
    /\ args.commit_error_dialog_dict = NoDict

\* C6 (as claimed): ValueError exactly when confirm comes without confirm_delay,
\* confirm_delay without confirm, or comment together with confirm.
C6_Original ==
    pc # "idle"
      => (outcome = "ValueError"
            <=> \/ args.confirm /\ args.confirm_delay \in {<<>>, <<0>>}
                \/ args.confirm_delay \notin {<<>>, <<0>>} /\ ~args.confirm
                \/ args.comment # <<>> /\ args.confirm)

\* C6 (amended): ValueError exactly when confirm comes without a non-zero
\* confirm_delay, a non-zero confirm_delay without confirm, comment together
\* with confirm, or, in CiscoVxrSSH, the comment contains a double quote; the
\* verdict is a function of the arguments (and the class) alone, and confirm
\* with a non-zero confirm_delay is never the reason of a rejection.
C6_Verdict ==
    /\ pc # "idle"
         => (outcome = "ValueError"
               <=> \/ args.confirm /\ args.confirm_delay \in {<<>>, <<0>>}
                   \/ args.confirm_delay \notin {<<>>, <<0>>} /\ ~args.confirm
                   \/ args.comment # <<>> /\ args.confirm
                   \/ impl = "vxr" /\ \E i \in 1..Len(args.comment) : args.comment[i] = QUOTE)
    /\ (outcome = "ValueError" /\ args.confirm /\ args.confirm_delay = <<30>>)
         => args.comment # <<>>

\* C6 witness: rejected on a closed channel for confirm without confirm_delay
C6_Witness ==
    /\ pc = "done" /\ outcome = "ValueError"
    /\ closed
    /\ args.confirm /\ args.confirm_delay = <<>> /\ args.comment = <<>>

\* C7: both classes reject a comment that contains a double quote, and put any
\* other non-empty comment into the command text between double quotes.
C7_QuotedComment ==
    (pc # "idle" /\ args.comment # <<>>)
      => IF \E i \in 1..Len(args.comment) : args.comment[i] = QUOTE
         THEN outcome = "ValueError"
         ELSE Accepted
                => Contains(<<QUOTE>> \o args.comment \o <<QUOTE>>, command_string)

\* the comment as the class writes it
C8_Comment ==
    IF impl = "vxr" THEN <<QUOTE>> \o args.comment \o <<QUOTE>> ELSE args.comment

C8_Table ==
    LET delay == IF args.confirm_delay = <<30>> THEN <<"3", "0">> ELSE <<"?">>
    IN  IF args.label # <<>> /\ args.comment # <<>>
        THEN <<"commit", " ", "label", " ">> \o args.label \o <<" ", "comment", " ">>
             \o C8_Comment
        ELSE IF args.label # <<>> /\ args.confirm
        THEN <<"commit", " ", "label", " ">> \o args.label \o <<" ", "confirmed", " ">>
             \o delay
        ELSE IF args.label # <<>>
        THEN <<"commit", " ", "label", " ">> \o args.label
        ELSE IF args.confirm
        THEN <<"commit", " ", "confirmed", " ">> \o delay
        ELSE IF args.comment # <<>>
        THEN <<"commit", " ", "comment", " ">> \o C8_Comment
        ELSE <<"commit">>

\* C8: for accepted arguments without force, best_effort and replace the command
\* text is the one of the table (the comment as the class writes it), it is the
\* text written to the channel, and label L with confirm and delay 30 gives
\* "commit label L confirmed 30".
C8_CommandText ==
    (Accepted /\ ~args.force /\ ~args.best_effort /\ ~args.replace)
      => /\ command_string = C8_Table
         /\ pc \in {"xr_confirm", "xr_gather", "vx_classify"}
              => \E i \in 1..Len(io) : io[i] = Ev("write", C8_Table \o <<NL>>)
         /\ (args.label = <<"L">> /\ args.confirm /\ args.confirm_delay = <<30>>)
              => command_string = <<"commit", " ", "label", " ", "L", " ", "confirmed",
                                    " ", "3", "0">>

\* C8 witness: label L with confirm and delay 30 has been sent
C8_Witness ==
    /\ pc \in {"xr_gather", "vx_classify"}
    /\ args.label = <<"L">> /\ args.confirm /\ args.confirm_delay = <<30>>
    /\ ~args.force /\ ~args.best_effort /\ ~args.replace

\* C9: when commit raises ValueError it has made no channel operation: no write,
\* no read, no clear_buffer.
C9_NoIoBeforeReject ==
    outcome = "ValueError" => (io = <<>> /\ pc = "done")

\* C9 witness: CiscoXrBase.commit (whose first operation after the checks is
\* config_mode) has rejected its arguments
C9_Witness ==
    /\ outcome = "ValueError"
    /\ impl = "xr"
    /\ ~closed

\* C10 (as claimed): commit returns only if the gathered output contains
\* neither marker.
C10_Original ==
    (pc = "done" /\ outcome = "return")
      => /\ ~Contains(alt_error_marker, ret)
         /\ ~Contains(error_marker, ret)

\* C10 (amended): commit returns only if the gathered output does not contain
\* the failure marker and contains the conflict marker only when a reply was
\* mapped to it, which commit has then sent instead of "no".
C10_ReturnMarkers ==
    (pc = "done" /\ outcome = "return")
      => /\ ret = output
         /\ ~Contains(error_marker, ret)
         /\ Contains(alt_error_marker, ret)
              => /\ Mapped(args)
                 /\ Written(args.commit_error_dialog_dict.map[alt_error_marker])
                 /\ ~Written(<<"no">>)

\* C10 witness: commit has returned after a resolved conflict
C10_Witness ==
    /\ pc = "done" /\ outcome = "return"
    /\ Contains(alt_error_marker, ret)


---------------------------------------------------------------------------
(* The device of find_prompt: it answers every return character; the first *)
(* answer carries the transient banner, if it has one to print.            *)

PromptReplies ==
    { <<CR, NL>> \o RealPrompt,
      <<NL>> \o RealPrompt \o <<SP>>,
      <<"data", CR, NL>> \o RealPrompt \o <<CR, NL>> }

DeviceBanners ==
    { <<"Last", " ", "login", ":", " ", "Tue">>,
      <<"Executing", " ", "autocommand">>,
      <<"last", " ", "switch-over", " ", "Tue">> }

\* the texts the device may answer a return character with
Answers ==
    IF banner # <<>>
    THEN { banner \o <<CR, NL>>, <<CR, NL>> \o banner \o <<CR, NL>> \o RealPrompt }
    ELSE PromptReplies

\* an answer reaches the channel
Deliver ==
    /\ pc # "done"
    /\ ~closed
    /\ wire # <<>>
    /\ chan' = chan \o Head(wire)
    /\ wire' = Tail(wire)
    /\ UNCHANGED <<closed, io, now, read_timeout, sessVars, scs, sendVars, timeout_arg, callVars, emitted, prompt, banner, cmVars, cfgVars, loginVars>>

---------------------------------------------------------------------------
(* CiscoVxrSSH.find_prompt                                                 *)

vxr_pattern == <<"last", " ", "login">>
autocommand_pattern == <<"executing", " ", "autocommand">>
cxr_pattern == <<"last", " ", "switch-over">>

\* (mutant) the banner test without .lower()
IsTransient_CaseSensitive(p) ==
    \/ Contains(vxr_pattern, p)
    \/ Contains(autocommand_pattern, p)
    \/ Contains(cxr_pattern, p)

\* vxr_pattern in prompt.lower() or autocommand_pattern in prompt.lower()
\*   or cxr_pattern in prompt.lower()
IsTransient(p) ==
    \/ Contains(vxr_pattern, Lower(p))
    \/ Contains(autocommand_pattern, Lower(p))
    \/ Contains(cxr_pattern, Lower(p))

\* (mutant) the text is not cut down to its last line
PromptOf_AllLines(p) == Strip(NormalizeLinefeeds(p))

\* normalize_linefeeds, split(RESPONSE_RETURN)[-1], strip
\* (ansi_escape_codes is off)
PromptOf(p) == Strip(LastLine(NormalizeLinefeeds(p)))

notPrompt == <<pattern, output, emitted, cmVars, cfgVars, loginVars>>

\* self.clear_buffer()
FpCall ==
    /\ pc = "idle"
    /\ chan' = <<>>
    /\ io' = Append(io, Ev("clear", <<>>))
    /\ pc' = "fp_write"
    /\ UNCHANGED <<notPrompt, closed, now, read_timeout, sessVars, scs, sendVars, timeout_arg, start_time, current_time,
                   closed_at_check, outcome, ret, fpVars>>

\* self.write_channel(self.RETURN); time.sleep(LOOP_DELAY)
\* first time: start_time = time.time(); current_time = time.time()
\* in the loop:  current_time = time.time()
FpWrite ==
    /\ pc \in {"fp_write", "fp_rewrite"}
    /\ IF WriteFails
       THEN /\ outcome' = "SessionDownException"
            /\ pc' = "done"
            /\ UNCHANGED <<io, now, start_time, current_time, wire, banner>>
       ELSE /\ io' = Append(io, Ev("write", RETURN))
            /\ \E a \in Answers : wire' = Append(wire, a)
            /\ banner' \in {<<>>, banner}
            /\ now' = now + LOOP_DELAY
            /\ start_time' = IF pc = "fp_write" THEN now + LOOP_DELAY ELSE start_time
            /\ current_time' = now + LOOP_DELAY
            /\ pc' = "fp_loop"
            /\ UNCHANGED outcome
    /\ UNCHANGED <<notPrompt, closed, chan, read_timeout, sessVars, scs, sendVars, timeout_arg, closed_at_check, ret, prompt>>

\* while current_time - start_time < self.read_timeout and not closed
FpLoop ==
    /\ pc = "fp_loop"
    /\ closed_at_check' = (InTime /\ closed)
    /\ pc' = IF InTime /\ ~closed THEN "fp_read" ELSE "fp_else"
    /\ UNCHANGED <<notPrompt, chanVars, read_timeout, sessVars, scs, sendVars, timeout_arg, start_time, current_time,
                   outcome, ret, fpVars>>

\* (mutant) a text with a transient banner is taken as the prompt
AfterBanner_Accepts == "fp_break"

\* the branch taken when the text read holds a transient banner: the retry
AfterBanner == "fp_retry"

\* prompt = self.read_channel().strip() and the branch on it
FpRead ==
    /\ pc = "fp_read"
    /\ prompt' = Strip(ReadChannel)
    /\ chan' = <<>>
    /\ io' = Append(io, Ev("read", ReadChannel))
    /\ IF prompt' # <<>>
       THEN IF IsTransient(prompt')
            THEN /\ now' = now + LOOP_DELAY + EXTRA_DELAY
                 /\ pc' = AfterBanner
                 /\ UNCHANGED current_time
            ELSE /\ pc' = "fp_break"
                 /\ UNCHANGED <<now, current_time>>
       ELSE /\ now' = now + LOOP_DELAY
            /\ current_time' = now + LOOP_DELAY
            /\ pc' = "fp_loop"
    /\ UNCHANGED <<notPrompt, closed, read_timeout, sessVars, scs, sendVars, timeout_arg, start_time, closed_at_check,
                   outcome, ret, wire, banner>>

\* the retry: self.clear_buffer(), then the write of FpWrite
FpRetry ==
    /\ pc = "fp_retry"
    /\ chan' = <<>>
    /\ io' = Append(io, Ev("clear", <<>>))
    /\ pc' = "fp_rewrite"
    /\ UNCHANGED <<notPrompt, closed, now, read_timeout, sessVars, scs, sendVars, timeout_arg, start_time, current_time,
                   closed_at_check, outcome, ret, fpVars>>

\* after the break: the prompt is cut out, time.sleep(LOOP_DELAY),
\* self.clear_buffer(), return prompt
FpBreak ==
    /\ pc = "fp_break"
    /\ now' = now + LOOP_DELAY
    /\ chan' = <<>>
    /\ io' = Append(io, Ev("clear", <<>>))
    /\ outcome' = "return"
    /\ ret' = PromptOf(prompt)
    /\ pc' = "done"
    /\ UNCHANGED <<notPrompt, closed, read_timeout, sessVars, scs, sendVars, timeout_arg, start_time, current_time,
                   closed_at_check, fpVars>>

\* (mutant) the else branch tests the time before the channel
FpElseOutcome_TimeFirst ==
    IF ~InTime THEN "PromptNotFoundException" ELSE "SessionDownException"

\* the while-else branch of find_prompt: which exception is raised
FpElseOutcome == IF closed THEN "SessionDownException" ELSE "PromptNotFoundException"

\* else: SessionDownException if closed, else PromptNotFoundException
FpElse ==
    /\ pc = "fp_else"
    /\ outcome' = FpElseOutcome
    /\ pc' = "done"
    /\ UNCHANGED <<notPrompt, chanVars, read_timeout, sessVars, scs, sendVars, timeout_arg, start_time, current_time,
                   closed_at_check, ret, fpVars>>

\* self.read_timeout of the sessions tried: too short for a retry, and long
\* enough for one
PromptTimeouts == {MaxTimeout, MaxTimeout + EXTRA_DELAY + 4 * LOOP_DELAY}

InitPrompt ==
    /\ closed = FALSE
    /\ chan \in {<<>>, <<NL>>}
    /\ io = <<>>
    /\ now = 0
    /\ read_timeout \in PromptTimeouts
    /\ pc = "idle"
    /\ pattern = ""
    /\ output = <<>>
    /\ start_time = 0
    /\ current_time = 0
    /\ closed_at_check = FALSE
    /\ outcome = "none"
    /\ ret = <<>>
    /\ emitted = 0
    /\ prompt = <<>>
    /\ wire = <<>>
    /\ banner \in DeviceBanners \cup {<<>>}
    /\ impl = "vxr"
    /\ args = NoArgs
    /\ command_string = <<>>
    /\ new_data = <<>>
    /\ msg = <<>>
    /\ commit_reply = <<>>
    /\ mode = "exec"
    /\ asking = FALSE
    /\ dirty = FALSE
    /\ skip_check = FALSE
    /\ cmd_verify = TRUE
    /\ pre_check = FALSE
    /\ post_check = FALSE
    /\ dialog = "none"
    /\ max_loops = 0
    /\ loop_i = 1
    /\ outer = 0
    /\ count = 0
    /\ my_password = "password"
    /\ sent = <<>>
    /\ at_bmc = FALSE
    /\ is_spitfire = FALSE
    /\ eof = FALSE
    /\ iters = 0
    /\ resets = 0
    /\ last_reads = 0
    /\ timeout_arg = READ_TIMEOUT_DEFAULT
    /\ expect_string = "None"
    /\ opts = DefaultOpts
    /\ stack = <<>>
    /\ base_prompt = Hostname
    /\ scs = NoSet
    /\ method = "find_prompt"

NextPrompt ==
    \/ FpCall
    \/ FpWrite
    \/ FpLoop
    \/ FpRead
    \/ FpRetry
    \/ FpBreak
    \/ FpElse
    \/ Deliver
    \/ ChannelCloses

SpecPrompt == InitPrompt /\ [][NextPrompt]_vars

\* the read events of the call
Reads == { i \in 1..Len(io) : io[i].op = "read" }
ReturnsWritten == Cardinality({ i \in 1..Len(io) : io[i] = Ev("write", RETURN) })
HasBanner(t) == \E b \in DeviceBanners : Contains(b, t)

\* C3: when find_prompt returns, the read it took the prompt from (the last
\* read) contained no transient banner and the returned text contains none; if
\* some read of the call contained the banner, the return character was written
\* at least twice (sent and resent) and the returned prompt is the real one.
C3_NoBannerPrompt ==
    (pc = "done" /\ outcome = "return")
      => /\ Reads # {}
         /\ LET last == CHOOSE i \in Reads : \A j \in Reads : j <= i
            IN  /\ ~HasBanner(io[last].data)
                /\ ret = PromptOf(Strip(io[last].data))
         /\ ~HasBanner(ret)
         /\ ret = RealPrompt
         /\ (\E i \in Reads : HasBanner(io[i].data)) => ReturnsWritten >= 2

\* C3, second part: the call gives up (PromptNotFoundException) only when the
\* read timeout has elapsed, never because of the banner.
C3_Theorem ==
    /\ C3_NoBannerPrompt
    /\ (pc = "done" /\ outcome = "PromptNotFoundException")
          => now - start_time >= read_timeout

\* C3 witness: a banner in capitals was read, and the call returned
C3_Witness ==
    /\ pc = "done" /\ outcome = "return"
    /\ \E i \in Reads : Contains(<<"Last", " ", "login">>, io[i].data)


---------------------------------------------------------------------------
(* The device of the config-mode calls.  It has a CLI mode, answers a bare *)
(* return with the prompt of its mode, obeys the mode commands, and asks   *)
(* before it leaves config mode with uncommitted changes.  It prints its   *)
(* answer in pieces (the echo of the command, then a banner or the         *)
(* prompt); a hung device prints nothing.                                  *)

Modes == {"exec", "admin", "config", "admin-config"}
ConfigModes == {"config", "admin-config"}

\* the mode "config terminal" leads to, and the mode "end" leads to
Inner(m) == IF m = "exec" THEN "config" ELSE IF m = "admin" THEN "admin-config" ELSE m
Outer(m) == IF m = "config" THEN "exec" ELSE IF m = "admin-config" THEN "admin" ELSE m

PromptFor(m) ==
    <<NL, "Router">>
    \o (IF m = "exec" THEN <<>> ELSE <<"(", m, ")">>)
    \o <<"#">>

UncommittedBanner ==
    <<"Uncommitted", SP, "changes", SP, "found", SP, "[cancel]:">>

LockedText == <<"%", SP, "Router", SP, "config", SP, "locked", SP, "(", "busy", ")", "#">>

Echo(cmd) == RStrip(cmd) \o <<CR, NL>>

config_term == Words(<<"config", "term">>)
config_terminal == Words(<<"config", "terminal">>)
exit_config == <<"end">>

IsConfigCommand(cmd) ==
    RStrip(cmd) \in {config_term, config_terminal}

\* what the device does with the text written to it: its answer and its next state
React(cmd) ==
    LET Stay(r) == [reply |-> r, mode |-> mode, asking |-> asking, dirty |-> dirty]
        Go(r, m, a, d) == [reply |-> r, mode |-> m, asking |-> a, dirty |-> d]
    IN  IF cmd = <<>> THEN { Stay(<<>>) }
        ELSE { Stay(<<>>) } \cup
          ( IF asking
            THEN IF RStrip(cmd) = <<"no">>
                 THEN { Go(<<Echo(cmd), PromptFor(Outer(mode))>>, Outer(mode), FALSE, FALSE) }
                 ELSE { Go(<<PromptFor(mode)>>, mode, FALSE, dirty) }
            ELSE IF cmd = RETURN
            THEN { Stay(<<PromptFor(mode)>>) }
            ELSE IF IsConfigCommand(cmd)
            THEN { Go(<<Echo(cmd), PromptFor(Inner(mode))>>, Inner(mode), FALSE, dirty),
                   Stay(<<Echo(cmd), LockedText, PromptFor(mode)>>) }
            ELSE IF RStrip(cmd) = exit_config /\ mode \in ConfigModes
            THEN IF dirty
                 THEN { Go(<<Echo(cmd), UncommittedBanner>>, mode, TRUE, dirty) }
                 ELSE { Go(<<Echo(cmd), PromptFor(Outer(mode))>>, Outer(mode), FALSE, FALSE) }
            ELSE IF mode \in ConfigModes
            THEN { Go(<<Echo(cmd), PromptFor(mode)>>, mode, FALSE, TRUE) }
            ELSE { Stay(<<Echo(cmd), PromptFor(mode)>>) } )

RECURSIVE Flatten(_)
Flatten(ps) == IF ps = <<>> THEN <<>> ELSE Head(ps) \o Flatten(Tail(ps))

---------------------------------------------------------------------------
(* check_config_mode, config_mode, exit_config_mode                        *)


\* s.replace(sub, '') for a text sub of several atoms
RECURSIVE RemoveAll(_, _)
RemoveAll(s, sub) ==
    IF Len(s) < Len(sub) THEN s
    ELSE IF SubSeq(s, 1, Len(sub)) = sub
    THEN RemoveAll(SubSeq(s, Len(sub) + 1, Len(s)), sub)
    ELSE <<Head(s)>> \o RemoveAll(Tail(s), sub)

\* base_prompt, then any characters of the same line, then tail
SameLine(s, tail) ==
    \E i \in 1..Len(s) : \E j \in (i + 1)..(Len(s) - Len(tail) + 1) :
        /\ s[i] = base_prompt[1]
        /\ SubSeq(s, j, j + Len(tail) - 1) = tail
        /\ \A k \in i..j : s[k] # NL

\* re.search for the patterns of the config-mode calls
SearchMode(p, s) ==
    CASE p = "Router.*config"        -> \/ SameLine(s, <<"config">>)
                                        \/ SameLine(s, <<"admin-config">>)
      [] p = "Router.*\\)#"          -> SameLine(s, <<")", "#">>)
      [] p = "(Uncommitted|#$)"      -> \/ Contains(<<"Uncommitted">>, s)
                                        \/ EndsWithRe(s, <<"#">>)
      [] p = "(Uncommitted|#\\s*$)"  -> \/ Contains(<<"Uncommitted">>, s)
                                        \/ EndsWith(RStrip(s), <<"#">>)
      [] p = "end"                   -> Contains(<<"end">>, s)
      [] OTHER                       -> Search(p, s)

\* the return value of check_config_mode for the text its wait returned
InConfig_NoStrip(i, out) == Contains(<<")", "#">>, out)

InConfig(i, out) ==
    IF i = "xr"
    THEN Contains(<<")", "#">>, RemoveAll(out, <<"(", "admin", ")">>))
    ELSE Contains(<<")", "#">>, out)

\* the condition under which exit_config_mode sends the exit command
SendsExit_OnlySkip(skip, incfg) == skip

SendsExit(skip, incfg) == skip \/ incfg

\* config_mode: command and pattern of the class
ConfigCommand(i) == IF i = "xr" THEN config_terminal ELSE config_term
ConfigPattern(i) == IF i = "xr" THEN "Router.*\\)#" ELSE "Router.*config"

\* exit_config_mode: the patterns of the class
ExitPattern(i) == IF i = "xr" THEN "(Uncommitted|#\\s*$)" ELSE "(Uncommitted|#$)"
DiscardPattern(i) == IF i = "xr" THEN "[>#]" ELSE "#$"

WaitResults == {"none", "SessionDownException", "PatternNotFoundException"}

notConfig == <<now, read_timeout, sessVars, sendVars, timeout_arg, pattern, start_time, current_time, closed_at_check,
               emitted, fpVars, impl, args, command_string, msg, commit_reply,
               skip_check, cmd_verify, loginVars>>

\* where config_mode returns to: the command loop of send_config_set, or the
\* caller that goes on to exit_config_mode
AfterConfig == IF scs.on THEN "scs_loop" ELSE "exit_call"

\* write_channel(text) alone: the device's answer waits in the channel
WriteOnly(text, w) ==
    IF WriteFails
    THEN /\ w = "SessionDownException"
         /\ UNCHANGED <<closed, chan, io, devVars>>
    ELSE \E d \in React(text) :
           /\ w = "none"
           /\ mode' = d.mode /\ asking' = d.asking /\ dirty' = d.dirty
           /\ chan' = chan \o Flatten(d.reply)
           /\ io' = Append(io, Ev("write", text))
           /\ UNCHANGED closed

\* One exchange: write_channel(text) unless text is empty, then
\* read_until_pattern(pat) with result w.  The wait returns what has arrived when
\* the pattern first matches: the text left in the channel and the first pieces
\* of the device's answer; the later pieces stay in the channel.
Dialog(text, pat, w) ==
    IF text # <<>> /\ WriteFails
    THEN /\ w = "SessionDownException"
         /\ new_data' = <<>>
         /\ UNCHANGED <<closed, chan, io, devVars>>
    ELSE \E d \in React(text) :
           LET all == (IF chan = <<>> THEN <<>> ELSE <<chan>>) \o d.reply
               Pre(k) == Flatten(SubSeq(all, 1, k))
               Ks == { k \in 1..Len(all) : SearchMode(pat, Pre(k)) }
               wr == IF text = <<>> THEN io ELSE Append(io, Ev("write", text))
           IN  /\ mode' = d.mode /\ asking' = d.asking /\ dirty' = d.dirty
               /\ IF closed
                  THEN /\ w = "SessionDownException"
                       /\ new_data' = <<>>
                       /\ io' = wr
                       /\ UNCHANGED <<closed, chan>>
                  ELSE IF Ks = {}
                  THEN /\ new_data' = <<>>
                       /\ chan' = <<>>
                       /\ io' = Append(wr, Ev("read", Flatten(all)))
                       /\ \/ w = "PatternNotFoundException" /\ UNCHANGED closed
                          \/ w = "SessionDownException" /\ closed' = TRUE
                  ELSE \E k \in Ks :
                         /\ w = "none"
                         /\ new_data' = Pre(k)
                         /\ chan' = Flatten(SubSeq(all, k + 1, Len(all)))
                         /\ io' = Append(wr, Ev("read", Pre(k)))
                         /\ UNCHANGED closed

\* self.check_config_mode(): a bare return, the wait for "[#\$]"
Check(w) == Dialog(RETURN, "[#\\$]", w)

\* the caller's check_config_mode() before config_mode()
CkPre ==
    /\ pc = "idle"
    /\ \E w \in WaitResults :
         /\ Check(w)
         /\ outcome' = w
         /\ pre_check' = (w = "none" /\ InConfig(impl, new_data'))
    /\ Goto("cfg_call")
    /\ UNCHANGED <<notConfig, scs, output, ret, post_check>>

\* config_mode: if not self.check_config_mode()
CfgCall ==
    /\ pc = "cfg_call"
    /\ \E w \in WaitResults :
         /\ Check(w)
         /\ outcome' = w
         /\ pc' = IF w # "none" THEN "done"
                  ELSE IF InConfig(impl, new_data') THEN AfterConfig ELSE "cfg_send"
    /\ output' = <<>>
    /\ UNCHANGED <<notConfig, scs, ret, pre_check, post_check>>

\* config_mode: the config command and the wait for the config prompt
CfgSend ==
    /\ pc = "cfg_send"
    /\ \E w \in WaitResults :
         /\ Dialog(NormalizeCmd(ConfigCommand(impl)), ConfigPattern(impl), w)
         /\ outcome' = w
    /\ output' = new_data'
    /\ Goto("cfg_check")
    /\ UNCHANGED <<notConfig, scs, ret, pre_check, post_check>>

\* config_mode: if not self.check_config_mode(): raise ConfigModeEnterError
CfgCheck ==
    /\ pc = "cfg_check"
    /\ \E w \in WaitResults :
         /\ Check(w)
         /\ outcome' = IF w # "none" THEN w
                       ELSE IF InConfig(impl, new_data') THEN "none"
                       ELSE "ConfigModeEnterError"
    /\ Goto(AfterConfig)
    /\ UNCHANGED <<notConfig, scs, output, ret, pre_check, post_check>>

\* exit_config_mode: if skip_check or self.check_config_mode()
ExitCall ==
    /\ pc = "exit_call"
    /\ output' = <<>>
    /\ IF skip_check
       THEN /\ pc' = IF SendsExit(TRUE, FALSE) THEN "exit_send" ELSE "post"
            /\ UNCHANGED <<chanVars, devVars, outcome, new_data>>
       ELSE \E w \in WaitResults :
              /\ Check(w)
              /\ outcome' = w
              /\ pc' = IF w # "none" THEN "done"
                       ELSE IF SendsExit(FALSE, InConfig(impl, new_data'))
                       THEN "exit_send" ELSE "post"
              /\ UNCHANGED now
    /\ ret' = IF pc' = "post" THEN <<>> ELSE ret
    /\ UNCHANGED <<notConfig, scs, pre_check, post_check>>

\* exit_config_mode: the exit command; CiscoVxrSSH waits for the banner or the
\* prompt, CiscoXrBase for the echo of the command when global_cmd_verify is on
ExitSend ==
    /\ pc = "exit_send"
    /\ \E w \in WaitResults :
         /\ IF impl = "vxr"
            THEN Dialog(NormalizeCmd(exit_config), ExitPattern(impl), w)
            ELSE IF cmd_verify
            THEN Dialog(NormalizeCmd(exit_config), "end", w)
            ELSE WriteOnly(NormalizeCmd(exit_config), w) /\ new_data' = <<>>
         /\ outcome' = w
    /\ output' = output \o new_data'
    /\ Goto(IF impl = "vxr" THEN "exit_dialog" ELSE "xr_exit_wait")
    /\ UNCHANGED <<notConfig, scs, ret, pre_check, post_check>>

\* CiscoXrBase.exit_config_mode: the wait for the banner or the prompt, unless the
\* output has it already
XrExitWait ==
    /\ pc = "xr_exit_wait"
    /\ IF SearchMode(ExitPattern(impl), output)
       THEN UNCHANGED <<chanVars, devVars, outcome, new_data, output>>
       ELSE /\ \E w \in WaitResults :
                 /\ Dialog(<<>>, ExitPattern(impl), w)
                 /\ outcome' = w
            /\ output' = output \o new_data'
            /\ UNCHANGED now
    /\ Goto("exit_dialog")
    /\ UNCHANGED <<notConfig, scs, ret, pre_check, post_check>>

\* (mutant) the discard confirmation is sent whatever the output holds
AsksDiscard_Always(out) == TRUE

\* if "Uncommitted" in output
AsksDiscard(out) == Contains(<<"Uncommitted">>, out)

\* exit_config_mode: if "Uncommitted" in output, the answer "no" and the wait for
\* the prompt; then the return when skip_check
ExitDialog ==
    /\ pc = "exit_dialog"
    /\ IF AsksDiscard(output)
       THEN /\ \E w \in WaitResults :
                 /\ Dialog(NormalizeCmd(<<"no">>), DiscardPattern(impl), w)
                 /\ outcome' = w
            /\ output' = output \o new_data'
            /\ UNCHANGED now
       ELSE UNCHANGED <<chanVars, devVars, outcome, new_data, output>>
    /\ pc' = IF outcome' # "none" THEN "done"
             ELSE IF skip_check THEN "post" ELSE "exit_check"
    /\ ret' = IF pc' = "post" THEN output' ELSE ret
    /\ UNCHANGED <<notConfig, scs, pre_check, post_check>>

\* exit_config_mode: if self.check_config_mode(): raise ConfigModeExitError
ExitCheck ==
    /\ pc = "exit_check"
    /\ \E w \in WaitResults :
         /\ Check(w)
         /\ outcome' = IF w # "none" THEN w
                       ELSE IF InConfig(impl, new_data') THEN "ConfigModeExitError"
                       ELSE "none"
    /\ Goto("post")
    /\ ret' = IF outcome' = "none" THEN output ELSE ret
    /\ UNCHANGED <<notConfig, scs, output, pre_check, post_check>>

\* the caller's check_config_mode() after exit_config_mode()
CkPost ==
    /\ pc = "post"
    /\ \E w \in WaitResults :
         /\ Check(w)
         /\ outcome' = IF w = "none" THEN "return" ELSE w
         /\ post_check' = (w = "none" /\ InConfig(impl, new_data'))
    /\ pc' = "done"
    /\ UNCHANGED <<notConfig, scs, output, ret, pre_check>>

\* the session goes down between two steps
ConfigChannelCloses ==
    /\ pc # "done"
    /\ ~closed
    /\ closed' = TRUE
    /\ UNCHANGED <<notConfig, scs, chan, io, devVars, pc, output, outcome, ret, new_data,
                   pre_check, post_check>>

InitConfig ==
    /\ closed = FALSE
    /\ chan = <<>>
    /\ io = <<>>
    /\ now = 0
    /\ read_timeout = MaxTimeout
    /\ pc = "idle"
    /\ pattern = ""
    /\ output = <<>>
    /\ start_time = 0
    /\ current_time = 0
    /\ closed_at_check = FALSE
    /\ outcome = "none"
    /\ ret = <<>>
    /\ emitted = 0
    /\ prompt = <<>>
    /\ wire = <<>>
    /\ banner = <<>>
    /\ impl \in {"xr", "vxr"}
    /\ args = NoArgs
    /\ command_string = <<>>
    /\ new_data = <<>>
    /\ msg = <<>>
    /\ commit_reply = <<>>
    /\ mode \in Modes
    /\ asking = FALSE
    /\ dirty \in IF mode \in ConfigModes THEN BOOLEAN ELSE {FALSE}
    /\ skip_check \in BOOLEAN
    /\ cmd_verify \in IF impl = "xr" THEN BOOLEAN ELSE {TRUE}
    /\ pre_check = FALSE
    /\ post_check = FALSE
    /\ dialog = "none"
    /\ max_loops = 0
    /\ loop_i = 1
    /\ outer = 0
    /\ count = 0
    /\ my_password = "password"
    /\ sent = <<>>
    /\ at_bmc = FALSE
    /\ is_spitfire = FALSE
    /\ eof = FALSE
    /\ iters = 0
    /\ resets = 0
    /\ last_reads = 0
    /\ timeout_arg = READ_TIMEOUT_DEFAULT
    /\ expect_string = "None"
    /\ opts = DefaultOpts
    /\ stack = <<>>
    /\ base_prompt = Hostname
    /\ scs = NoSet
    /\ method = "config_mode"

NextConfig ==
    \/ CkPre
    \/ CfgCall
    \/ CfgSend
    \/ CfgCheck
    \/ ExitCall
    \/ ExitSend
    \/ XrExitWait
    \/ ExitDialog
    \/ ExitCheck
    \/ CkPost
    \/ ConfigChannelCloses

SpecConfig == InitConfig /\ [][NextConfig]_vars

WroteText(t) == \E i \in 1..Len(io) : io[i] = Ev("write", NormalizeCmd(t))

BothReturned == pc = "done" /\ outcome = "return"

\* C5 (as claimed): after config_mode() and exit_config_mode() (skip_check left
\* at its default) have returned, check_config_mode reports what it reported
\* before config_mode().
C5_Original == (BothReturned /\ ~skip_check) => post_check = pre_check

\* C5 (amended): after config_mode() and exit_config_mode() have returned, a
\* device that was reported outside config mode is reported outside config mode
\* again, having been sent the config command and the exit command; a device
\* that was reported in config mode is sent no config command; and in every
\* case the device is outside config mode.
C5_EnterExit ==
    BothReturned
      => /\ ~pre_check => ~post_check
         /\ ~pre_check => WroteText(ConfigCommand(impl)) /\ WroteText(exit_config)
         /\ pre_check => ~WroteText(ConfigCommand(impl))
         /\ mode \notin ConfigModes

\* C5 witness: entered from exec mode and left again
C5_Witness ==
    /\ BothReturned
    /\ ~pre_check /\ ~post_check
    /\ mode = "exec"
    /\ WroteText(ConfigCommand(impl)) /\ WroteText(exit_config)

---------------------------------------------------------------------------
(* The login dialogs.  Every read of the channel returns one of the texts  *)
(* a console can show, whatever was written before (the device is not      *)
(* scripted), or the channel raises EOFError.  The sleeps between a write  *)
(* and the read that follows it take time but change nothing else.         *)

T_SpitfireXr    == <<"RP/0/RP0/CPU0:ios", "#">>
T_RebootedBmc   == <<"cisco-bmc", "#">>
T_Bmc           == <<"root@spitfire-arm:~", "#">>
T_Linux         == <<"[xr:~]", "$">>
T_X86           == <<"root@xr:~", "#">>
T_NoLogin       == <<"Exec cannot be started from within an existing exec session">>
T_NotStarted    == <<"error while loading shared libraries">>
T_Standby       == <<"RP Node is not ready or active for login">>
T_Username      == <<"Username:", SP>>
T_BmcLogin      == <<"spitfire-arm login:", SP>>
T_XrLogin       == <<"xr login:", SP>>
T_Password      == <<"Password:", SP>>
T_Sunstone      == <<"Press RETURN to get started.">>
T_InitialDialog == <<"initial configuration dialog? [yes/no]:", SP>>
T_NoneSet       == <<"Password required, but none set">>
T_Prompt        == <<NL, "Router", "#">>
T_AltPrompt     == <<NL, "Router", ">", SP>>
T_Refused       == <<"%", SP, "Authentication failed", NL>>

LoginTexts ==
    { <<>>, T_SpitfireXr, T_RebootedBmc, T_Bmc, T_Linux, T_X86, T_NoLogin, T_NotStarted,
      T_Standby, T_Username, T_BmcLogin, T_XrLogin, T_Password, T_Sunstone,
      T_InitialDialog, T_NoneSet, T_Prompt, T_AltPrompt, T_Refused }

HasAtom(s, as) == \E k \in 1..Len(s) : s[k] \in as

\* the text ends with tail, or tail is followed by one final newline (Python's $)
AtEnd(s, tail) == EndsWithRe(s, tail)

\* c followed by whitespace only up to the end of some line (c\s*$ with re.M)
EndsALine(s, c) ==
    \E k \in 1..Len(s) :
        /\ s[k] = c
        /\ \/ \A m \in (k + 1)..Len(s) : IsSpace(s[m])
           \/ \E n \in (k + 1)..Len(s) :
                /\ s[n] = NL
                /\ \A m \in (k + 1)..n : IsSpace(s[m])

\* the regular expressions of telnet_login, on the texts above
pri_prompt_terminator == "\\#\\s*$"
alt_prompt_terminator == ">\\s*$"

SpitfireXrPrompt(s)  == HasAtom(s, {"RP/0/RP0/CPU0:ios"}) /\ AtEnd(s, <<"RP/0/RP0/CPU0:ios", "#">>)
rebooted_bmc_prompt_pattern(s) == Contains(<<"cisco-bmc", "#">>, s)
bmc_prompt_pattern(s) == Contains(<<"root@spitfire-arm:~", "#">>, s)
linux_prompt_pattern(s) == Contains(<<"[xr:~]", "$">>, s)
x86_prompt_pattern(s) == Contains(<<"root@xr:~", "#">>, s)
xr_no_login_pattern(s) == HasAtom(s, {T_NoLogin[1]})
xr_not_started(s) == HasAtom(s, {T_NotStarted[1]})
standby_pattern(s) == HasAtom(s, {T_Standby[1]})
\* (?:user:|username|login|user name), re.I
username_pattern(s) == HasAtom(s, {"Username:", "spitfire-arm login:", "xr login:"})
bmc_login_pattern(s) == HasAtom(s, {"spitfire-arm login:"})
xr_or_host_login_pattern(s) == HasAtom(s, {"xr login:"})
\* assword|ecret, with re.I and without: the texts spell it the same way
pwd_pattern(s) == HasAtom(s, {"Password:", T_NoneSet[1]})
sunstone_pattern(s) == AtEnd(s, T_Sunstone)
initial_dialog_pattern(s) == Contains(T_InitialDialog, s)
press_return_pattern(s) == HasAtom(s, {T_Sunstone[1]})
none_set_pattern(s) == HasAtom(s, {T_NoneSet[1]})
PriPrompt(s) == EndsALine(s, "#")
AltPrompt(s) == EndsALine(s, ">")

\* find_prompt_special_case(): the last line, stripped, of the first non-empty
\* text the console shows; nothing when the console stays silent (ValueError)
FindPromptSpecial == { Strip(LastLine(Strip(t))) : t \in LoginTexts } \ { <<>> }

---------------------------------------------------------------------------
(* CiscoBaseConnection.telnet_login                                        *)

outer_loops == 3
inner_loops_RoundedUp == (max_loops + outer_loops - 1) \div outer_loops

\* int(max_loops / outer_loops)
inner_loops == max_loops \div outer_loops

\* the length of the wait for "Press RETURN to get started" after the initial
\* configuration dialog was declined
DialogReads == 15

\* the largest max_loops of a call
MaxLoops == 7

password == "password"
bmc_password == "0penBmc"

notLogin == <<chan, io, now, read_timeout, sessVars, scs, sendVars, timeout_arg, pattern, start_time, current_time,
              closed_at_check, ret, emitted, fpVars, cmVars, cfgVars, dialog, max_loops>>

\* except EOFError: self.remote_conn.close(); raise NetmikoAuthenticationException
EofInTry_NoClose ==
    /\ outcome' = "NetmikoAuthenticationException"
    /\ eof' = TRUE
    /\ pc' = "done"
    /\ UNCHANGED <<output, closed>>

EofInTry ==
    /\ closed' = TRUE
    /\ outcome' = "NetmikoAuthenticationException"
    /\ eof' = TRUE
    /\ pc' = "done"
    /\ UNCHANGED output

\* an EOFError outside the try block reaches the caller as it is
EofOutsideTry ==
    /\ outcome' = "EOFError"
    /\ eof' = TRUE
    /\ pc' = "done"
    /\ UNCHANGED <<output, closed>>

\* output = self.read_channel()
ReadsText(next) ==
    \E t \in LoginTexts :
        /\ output' = t
        /\ pc' = next
        /\ UNCHANGED <<closed, outcome, eof>>

SkipTo(next) ==
    /\ pc' = next
    /\ UNCHANGED <<output, closed, outcome, eof>>

\* return return_msg
Returns(t) ==
    /\ output' = t
    /\ pc' = "done"
    /\ outcome' = "return"
    /\ UNCHANGED <<closed, eof>>

\* self.remote_conn.close(); raise NetmikoAuthenticationException(msg)
LoginFails(t) ==
    /\ output' = t
    /\ closed' = TRUE
    /\ outcome' = "NetmikoAuthenticationException"
    /\ pc' = "done"
    /\ UNCHANGED eof

\* if re.search(p, output): write, sleep, output = self.read_channel()
Branch(cond, next) ==
    IF cond THEN ReadsText(next) \/ EofInTry ELSE SkipTo(next)

TlCall ==
    /\ pc = "idle"
    /\ dialog = "telnet_login"
    /\ output' = <<>>
    /\ loop_i' = 1
    /\ is_spitfire' = FALSE
    /\ pc' = "tl_loop"
    /\ UNCHANGED <<notLogin, closed, outcome, eof, outer, count, my_password, sent, at_bmc, iters,
                   resets, last_reads>>

\* for _ in range(outer_loops): while i <= inner_loops:
TlLoop ==
    /\ pc = "tl_loop"
    /\ IF outer = outer_loops
       THEN pc' = "tl_last" /\ UNCHANGED <<iters, sent>>
       ELSE IF loop_i <= inner_loops
       THEN pc' = "tl_read" /\ iters' = iters + 1 /\ sent' = <<>>
       ELSE pc' = "tl_reset" /\ UNCHANGED <<iters, sent>>
    /\ UNCHANGED <<notLogin, output, closed, outcome, eof, loop_i, outer, count,
                   my_password, at_bmc, is_spitfire, resets, last_reads>>

\* the first read of an iteration, find_prompt_special_case() when it is empty,
\* and the return at the spitfire XR prompt
TlRead ==
    /\ pc = "tl_read"
    /\ \/ \E t \in (LoginTexts \ {<<>>}) \cup FindPromptSpecial :
            IF SpitfireXrPrompt(t)
            THEN Returns(t)
            ELSE /\ output' = t
                 /\ pc' = "tl_rebooted"
                 /\ UNCHANGED <<closed, outcome, eof>>
       \/ EofInTry
       \/ /\ outcome' = "ValueError"
          /\ pc' = "done"
          /\ output' = <<>>
          /\ UNCHANGED <<closed, eof>>
    /\ UNCHANGED <<notLogin, loop_i, outer, count, my_password, sent, at_bmc, is_spitfire, iters,
                   resets, last_reads>>

TlRebooted ==
    /\ pc = "tl_rebooted"
    /\ Branch(rebooted_bmc_prompt_pattern(output), "tl_bmc")
    /\ UNCHANGED <<notLogin, loop_i, outer, count, my_password, sent, at_bmc, is_spitfire, iters,
                   resets, last_reads>>

TlBmc ==
    /\ pc = "tl_bmc"
    /\ Branch(bmc_prompt_pattern(output), "tl_linux")
    /\ UNCHANGED <<notLogin, loop_i, outer, count, my_password, sent, at_bmc, is_spitfire, iters,
                   resets, last_reads>>

TlLinux ==
    /\ pc = "tl_linux"
    /\ Branch(linux_prompt_pattern(output) \/ x86_prompt_pattern(output), "tl_nologin")
    /\ UNCHANGED <<notLogin, loop_i, outer, count, my_password, sent, at_bmc, is_spitfire, iters,
                   resets, last_reads>>

\* "exit" out of the nested exec session; the return tests the pattern texts as
\* substrings of the output
TlNoLogin ==
    /\ pc = "tl_nologin"
    /\ IF xr_no_login_pattern(output)
       THEN \/ \E t \in LoginTexts :
                 IF \/ Contains(<<pri_prompt_terminator>>, t)
                    \/ Contains(<<alt_prompt_terminator>>, t)
                 THEN Returns(t)
                 ELSE /\ output' = t
                      /\ pc' = "tl_notstarted"
                      /\ UNCHANGED <<closed, outcome, eof>>
            \/ EofInTry
       ELSE SkipTo("tl_notstarted")
    /\ UNCHANGED <<notLogin, loop_i, outer, count, my_password, sent, at_bmc, is_spitfire, iters,
                   resets, last_reads>>

TlNotStarted ==
    /\ pc = "tl_notstarted"
    /\ Branch(xr_not_started(output), "tl_standby")
    /\ UNCHANGED <<notLogin, loop_i, outer, count, my_password, sent, at_bmc, is_spitfire, iters,
                   resets, last_reads>>

TlStandby ==
    /\ pc = "tl_standby"
    /\ IF standby_pattern(output) THEN Returns(output) ELSE SkipTo("tl_username")
    /\ UNCHANGED <<notLogin, loop_i, outer, count, my_password, sent, at_bmc, is_spitfire, iters,
                   resets, last_reads>>

\* my_password = self.password; the username at a username prompt
PasswordFor_Configured(s) == password

PasswordFor(s) ==
    IF username_pattern(s) /\ bmc_login_pattern(s) THEN bmc_password ELSE password

TlUsername ==
    /\ pc = "tl_username"
    /\ my_password' = PasswordFor(output)
    /\ at_bmc' = IF username_pattern(output) \/ xr_or_host_login_pattern(output)
                 THEN bmc_login_pattern(output) ELSE at_bmc
    /\ Branch(username_pattern(output) \/ xr_or_host_login_pattern(output), "tl_password")
    /\ UNCHANGED <<notLogin, loop_i, outer, count, sent, is_spitfire, iters, resets,
                   last_reads>>

\* the password at a password prompt, the return at a prompt, the password again
\* when the prompt for it is repeated
PasswordAccepted(t) == PriPrompt(t) \/ (AltPrompt(t) /\ ~x86_prompt_pattern(t))

\* (mutant) the password is written once, whatever the device answers
Resends_Never(t) == FALSE

\* if re.search(pwd_pattern, output): the password is written again
Resends(t) == pwd_pattern(t)

TlPassword ==
    /\ pc = "tl_password"
    /\ IF pwd_pattern(output)
       THEN \/ \E t \in LoginTexts :
                 IF PasswordAccepted(t)
                 THEN /\ Returns(t)
                      /\ sent' = Append(sent, my_password)
                 ELSE IF Resends(t)
                 THEN /\ ReadsText("tl_sunstone") \/ EofInTry
                      /\ sent' = sent \o <<my_password, my_password>>
                 ELSE /\ output' = t
                      /\ pc' = "tl_sunstone"
                      /\ sent' = Append(sent, my_password)
                      /\ UNCHANGED <<closed, outcome, eof>>
            \/ /\ EofInTry
               /\ sent' = Append(sent, my_password)
       ELSE SkipTo("tl_sunstone") /\ UNCHANGED sent
    /\ UNCHANGED <<notLogin, loop_i, outer, count, my_password, at_bmc, is_spitfire, iters,
                   resets, last_reads>>

TlSunstone ==
    /\ pc = "tl_sunstone"
    /\ Branch(sunstone_pattern(output), "tl_initial")
    /\ UNCHANGED <<notLogin, loop_i, outer, count, my_password, sent, at_bmc, is_spitfire, iters,
                   resets, last_reads>>

\* "no" to the initial configuration dialog
TlInitial ==
    /\ pc = "tl_initial"
    /\ IF initial_dialog_pattern(output)
       THEN count' = 0 /\ SkipTo("tl_initial_loop")
       ELSE UNCHANGED count /\ SkipTo("tl_noneset")
    /\ UNCHANGED <<notLogin, loop_i, outer, my_password, sent, at_bmc, is_spitfire, iters, resets,
                   last_reads>>

\* while count < 15: one read
TlInitialLoop ==
    /\ pc = "tl_initial_loop"
    /\ IF count < DialogReads
       THEN \/ \E t \in LoginTexts :
                 /\ IF press_return_pattern(t)
                    THEN output' = <<>> /\ pc' = "tl_noneset" /\ UNCHANGED count
                    ELSE output' = t /\ pc' = "tl_initial_loop" /\ count' = count + 1
                 /\ UNCHANGED <<closed, outcome, eof>>
            \/ EofInTry /\ UNCHANGED count
       ELSE SkipTo("tl_noneset") /\ UNCHANGED count
    /\ UNCHANGED <<notLogin, loop_i, outer, my_password, sent, at_bmc, is_spitfire, iters, resets,
                   last_reads>>

\* "assword required, but none set"
TlNoneSet ==
    /\ pc = "tl_noneset"
    /\ IF none_set_pattern(output) THEN LoginFails(output) ELSE SkipTo("tl_check")
    /\ UNCHANGED <<notLogin, loop_i, outer, count, my_password, sent, at_bmc, is_spitfire, iters,
                   resets, last_reads>>

\* is_spitfire, the prompt check at the end of the iteration, i += 1
CheckAccepts_IgnoreSpitfire(t, spitfire) == PriPrompt(t) \/ AltPrompt(t)

CheckAccepts(t, spitfire) == PriPrompt(t) \/ (AltPrompt(t) /\ ~spitfire)

TlCheck ==
    /\ pc = "tl_check"
    /\ is_spitfire' = (\/ is_spitfire
                       \/ rebooted_bmc_prompt_pattern(output)
                       \/ bmc_prompt_pattern(output)
                       \/ x86_prompt_pattern(output))
    /\ IF CheckAccepts(output, is_spitfire')
       THEN Returns(output) /\ UNCHANGED loop_i
       ELSE SkipTo("tl_loop") /\ loop_i' = loop_i + 1
    /\ UNCHANGED <<notLogin, outer, count, my_password, sent, at_bmc, iters, resets, last_reads>>

\* after the inner loop: a bare return, i = 1
TlReset ==
    /\ pc = "tl_reset"
    /\ resets' = resets + 1
    /\ loop_i' = 1
    /\ outer' = outer + 1
    /\ SkipTo("tl_loop")
    /\ UNCHANGED <<notLogin, count, my_password, sent, at_bmc, is_spitfire, iters, last_reads>>

\* the last check: a bare return, one read, the failure when it shows no prompt
LastOutcome_NoClose(t) ==
    IF PriPrompt(t) \/ AltPrompt(t) THEN Returns(t)
    ELSE /\ output' = t
         /\ outcome' = "NetmikoAuthenticationException"
         /\ pc' = "done"
         /\ UNCHANGED <<closed, eof>>

LastOutcome(t) ==
    IF PriPrompt(t) \/ AltPrompt(t) THEN Returns(t) ELSE LoginFails(t)

TlLast ==
    /\ pc = "tl_last"
    /\ \/ /\ \E t \in LoginTexts : LastOutcome(t)
          /\ last_reads' = last_reads + 1
       \/ EofOutsideTry /\ UNCHANGED last_reads
    /\ UNCHANGED <<notLogin, loop_i, outer, count, my_password, sent, at_bmc, is_spitfire, iters,
                   resets>>

---------------------------------------------------------------------------
(* CiscoBsp.bmc_login and CiscoBspTelnet.telnet_login.  Their loops run    *)
(* while the clock shows less than read_timeout since the call; a channel  *)
(* operation takes one or two ticks, a sleep its length.                   *)

T_BmcBanner  == <<"bmc login:", SP>>
T_BspLogin   == <<"bsp login:", SP>>
T_BmcPrompt  == <<"root@bmc:~", "#">>
T_BspPrompt  == <<"[bsp:~", "]", "#">>
T_BspShell   == <<"[bsp:~", "]", SP, "$">>

BspTexts ==
    { <<>>, T_BmcBanner, T_BspLogin, T_BmcPrompt, T_BspPrompt, T_BspShell, T_Password,
      T_NoneSet, T_Refused }

\* find_prompt() of BaseConnection: the last line, stripped, of what the console
\* shows
BspPrompts == { Strip(LastLine(Strip(t))) : t \in BspTexts } \ { <<>> }

\* the patterns of the two methods on these texts
bsp_username_pattern(s) == HasAtom(s, {"bmc login:", "bsp login:"})
bsp_pwd_pattern(s) == HasAtom(s, {"Password:", T_NoneSet[1]})
bmc_banner(s) == HasAtom(s, {"bmc login:", "root@bmc:~"})
\* \s*\# : any "#"
bmc_prompt(s) == HasAtom(s, {"#"})
\* ]\s*\# and ]\s*\$
BracketThen(s, c) ==
    \E k \in 1..Len(s) : \E m \in (k + 1)..Len(s) :
        /\ s[k] = "]"
        /\ s[m] = c
        /\ \A n \in (k + 1)..(m - 1) : IsSpace(s[n])
bsp_pri_prompt(s) == BracketThen(s, "#")
bsp_alt_prompt(s) == BracketThen(s, "$")

\* lengths in ticks of 50 ms
HALF_SECOND == 10
ONE_SECOND == 20
FIVE_SECONDS == 100
OpTicks == {1, 2}

\* what the nested calls of CiscoBspTelnet.telnet_login change
nestVars == <<io, prompt, stack>>

notBsp == <<chan, read_timeout, sessVars, scs, expect_string, opts, timeout_arg, pattern, current_time,
            closed_at_check, ret, emitted, wire, banner, cmVars, cfgVars, dialog, max_loops,
            loop_i, outer, count, my_password, at_bmc, is_spitfire, iters, resets, last_reads>>

\* raise NetMikoAuthenticationException(...): the transport is left as it is
BspFails(t) ==
    /\ output' = t
    /\ outcome' = "NetmikoAuthenticationException"
    /\ pc' = "done"
    /\ UNCHANGED <<closed, eof>>

\* an exception of a nested call that no handler of the method catches
Propagates(e) ==
    /\ outcome' = e
    /\ pc' = "done"
    /\ eof' = (eof \/ e = "EOFError")
    /\ UNCHANGED <<output, closed>>

\* output = self.find_prompt() after d ticks of sleep, inside bmc_login
BlFinds(d, next) ==
    /\ \E op \in OpTicks : now' = now + d + op
    /\ \/ \E t \in BspPrompts :
            /\ output' = t
            /\ pc' = next
            /\ UNCHANGED <<closed, outcome, eof>>
       \/ Propagates("PromptNotFoundException")
       \/ Propagates("EOFError")

BlCall ==
    /\ pc = "idle"
    /\ dialog = "bmc_login"
    /\ start_time' = now
    /\ pc' = "bl_loop"
    /\ UNCHANGED <<notBsp, nestVars, sent, now, output, closed, outcome, eof>>

\* while time.time() - start_time < read_timeout
BlLoop ==
    /\ pc = "bl_loop"
    /\ pc' = IF now - start_time < read_timeout THEN "bl_find" ELSE "bl_last"
    /\ UNCHANGED <<notBsp, nestVars, sent, now, start_time, output, closed, outcome, eof>>

\* output = self.find_prompt(); return at the BMC prompt
BlFind ==
    /\ pc = "bl_find"
    /\ \E op \in OpTicks : now' = now + op
    /\ \/ \E t \in BspPrompts :
            IF bmc_prompt(t) THEN Returns(t)
            ELSE /\ output' = t
                 /\ pc' = "bl_username"
                 /\ UNCHANGED <<closed, outcome, eof>>
       \/ Propagates("PromptNotFoundException")
       \/ Propagates("EOFError")
    /\ UNCHANGED <<notBsp, nestVars, sent, start_time>>

BlUsername ==
    /\ pc = "bl_username"
    /\ IF bsp_username_pattern(output)
       THEN BlFinds(ONE_SECOND + ONE_SECOND, "bl_password")
       ELSE SkipTo("bl_password") /\ UNCHANGED now
    /\ UNCHANGED <<notBsp, nestVars, sent, start_time>>

BlPassword ==
    /\ pc = "bl_password"
    /\ IF bsp_pwd_pattern(output)
       THEN \/ \E t \in BspPrompts :
                 /\ IF bmc_prompt(t) THEN Returns(t)
                    ELSE /\ output' = t
                         /\ pc' = "bl_loop"
                         /\ UNCHANGED <<closed, outcome, eof>>
                 /\ \E op \in OpTicks :
                      now' = now + HALF_SECOND + op
                             + (IF ~bmc_prompt(t) /\ bsp_pwd_pattern(t)
                                THEN HALF_SECOND ELSE 0)
            \/ /\ \E e \in {"PromptNotFoundException", "EOFError"} : Propagates(e)
               /\ \E op \in OpTicks : now' = now + HALF_SECOND + op
       ELSE SkipTo("bl_loop") /\ UNCHANGED now
    /\ UNCHANGED <<notBsp, nestVars, sent, start_time>>

\* the last check of bmc_login
BlLast ==
    /\ pc = "bl_last"
    /\ \E op \in OpTicks : now' = now + HALF_SECOND + op
    /\ \/ \E t \in BspPrompts : IF bmc_prompt(t) THEN Returns(t) ELSE BspFails(t)
       \/ Propagates("PromptNotFoundException")
       \/ Propagates("EOFError")
    /\ UNCHANGED <<notBsp, nestVars, sent, start_time>>

---------------------------------------------------------------------------
(* CiscoBspTelnet.telnet_login                                             *)

\* except EOFError: raise NetMikoAuthenticationException(...)
BspEof ==
    /\ outcome' = "NetmikoAuthenticationException"
    /\ eof' = TRUE
    /\ pc' = "done"
    /\ UNCHANGED <<output, closed>>

\* output = self.read_channel() after d ticks of sleep
BtReads(d, next) ==
    /\ \E op \in OpTicks : now' = now + d + op
    /\ \/ \E t \in BspTexts :
            /\ output' = t
            /\ pc' = next
            /\ UNCHANGED <<closed, outcome, eof>>
       \/ BspEof

\* output = self.find_prompt()
BtFinds(next) ==
    /\ \E op \in OpTicks : now' = now + op
    /\ \/ \E t \in BspPrompts :
            /\ output' = t
            /\ pc' = next
            /\ UNCHANGED <<closed, outcome, eof>>
       \/ Propagates("PromptNotFoundException")
       \/ BspEof

\* the time the nested bmc_login() takes
NestedTicks == {3, 2 * FIVE_SECONDS}

\* bmc_to_bsp_prompt: its command, its read_timeout in ticks, and the time a
\* find_prompt() takes inside it
bmc_to_bsp_cmd == <<"/usr/local/bin/sol.sh">>
TEN_SECONDS == 200
NestedFindTicks == {FIVE_SECONDS - ONE_SECOND}

BtCall ==
    /\ pc = "idle"
    /\ dialog = "bsp_telnet_login"
    /\ start_time' = now
    /\ pc' = "bt_loop"
    /\ UNCHANGED <<notBsp, nestVars, sent, now, output, closed, outcome, eof>>

\* while time.time() - start_time < read_timeout
BtLoop ==
    /\ pc = "bt_loop"
    /\ pc' = IF now - start_time < read_timeout THEN "bt_read" ELSE "bt_last"
    /\ sent' = IF now - start_time < read_timeout THEN <<>> ELSE sent
    /\ UNCHANGED <<notBsp, nestVars, now, start_time, output, closed, outcome, eof>>

\* the first read of an iteration, find_prompt() when it is empty
BtRead ==
    /\ pc = "bt_read"
    /\ \E op \in OpTicks : now' = now + op
    /\ \/ \E t \in (BspTexts \ {<<>>}) \cup BspPrompts :
            /\ output' = t
            /\ pc' = "bt_probe"
            /\ UNCHANGED <<closed, outcome, eof>>
       \/ Propagates("PromptNotFoundException")
       \/ BspEof
    /\ UNCHANGED <<notBsp, nestVars, sent, start_time>>

\* at a password prompt: a bare return to see whose prompt it is
BtProbe ==
    /\ pc = "bt_probe"
    /\ IF bsp_pwd_pattern(output)
       THEN BtFinds("bt_bmc")
       ELSE SkipTo("bt_bmc") /\ UNCHANGED now
    /\ UNCHANGED <<notBsp, nestVars, sent, start_time>>

\* (mutant) an exception of the nested bmc_login is swallowed
NestedFailure_Ignored(e) ==
    /\ pc' = "bt_switch"
    /\ UNCHANGED <<output, closed, outcome, eof>>

\* an exception of the nested bmc_login: EOFError is caught by the handler of
\* telnet_login, the others reach the caller
NestedFailure(e) == IF e = "EOFError" THEN BspEof ELSE Propagates(e)

\* what bmc_login raises (BlLast, BlFinds)
BmcLoginErrors == {"NetmikoAuthenticationException", "PromptNotFoundException", "EOFError"}

\* if 'bmc' in output: self.bmc_login().  The nested login is one step here; it
\* returns at a text that matches its prompt pattern, kept in prompt, or raises.
BtBmc ==
    /\ pc = "bt_bmc"
    /\ IF bmc_banner(output)
       THEN /\ \E d \in NestedTicks : now' = now + d
            /\ \/ \E t \in BspPrompts :
                    /\ bmc_prompt(t)
                    /\ prompt' = t
                    /\ pc' = "bt_switch"
                    /\ UNCHANGED <<output, closed, outcome, eof>>
               \/ /\ \E e \in BmcLoginErrors : NestedFailure(e)
                  /\ UNCHANGED prompt
       ELSE SkipTo("bt_username") /\ UNCHANGED <<now, prompt>>
    /\ UNCHANGED <<notBsp, io, stack, sent, start_time>>

\* bmc_to_bsp_prompt(): start_time = time.time(); output = self.find_prompt()
BsCall ==
    /\ pc = "bt_switch"
    /\ stack' = <<[start_time |-> start_time]>>
    /\ start_time' = now
    /\ \E d \in NestedFindTicks : now' = now + d
    /\ \/ \E t \in BspPrompts :
            /\ output' = t
            /\ pc' = "bs_loop"
            /\ UNCHANGED <<closed, outcome, eof>>
       \/ Propagates("PromptNotFoundException")
       \/ BspEof
    /\ UNCHANGED <<notBsp, io, prompt, sent>>

\* bmc_to_bsp_prompt returns to telnet_login
SwitchReturns ==
    /\ pc' = "bt_after"
    /\ start_time' = Head(stack).start_time
    /\ stack' = <<>>
    /\ UNCHANGED <<closed, outcome, eof>>

\* bmc_to_bsp_prompt, the loop: at a BMC prompt the command sol.sh and a return
\* are written and the prompt is read again; the call returns at the BSP prompt
\* and raises ValueError when its ten seconds are over
BsLoop ==
    /\ pc = "bs_loop"
    /\ IF now - start_time < TEN_SECONDS
       THEN IF bmc_prompt(output)
            THEN /\ io' = io \o <<Ev("write", bmc_to_bsp_cmd), Ev("write", RETURN)>>
                 /\ \E d \in NestedFindTicks : now' = now + d
                 /\ \/ \E t \in BspPrompts :
                         /\ output' = t
                         /\ IF bsp_pri_prompt(t)
                            THEN SwitchReturns
                            ELSE /\ pc' = "bs_loop"
                                 /\ UNCHANGED <<closed, outcome, eof, start_time, stack>>
                    \/ Propagates("PromptNotFoundException") /\ UNCHANGED <<start_time, stack>>
                    \/ BspEof /\ UNCHANGED <<start_time, stack>>
            ELSE /\ now' = start_time + TEN_SECONDS
                 /\ pc' = "bs_loop"
                 /\ UNCHANGED <<io, output, closed, outcome, eof, start_time, stack>>
       ELSE /\ IF bsp_pri_prompt(output)
               THEN SwitchReturns /\ UNCHANGED output
               ELSE Propagates("ValueError") /\ UNCHANGED <<start_time, stack>>
            /\ UNCHANGED <<io, now>>
    /\ UNCHANGED <<notBsp, prompt, sent>>

\* output = self.find_prompt() after the switch
BtAfter ==
    /\ pc = "bt_after"
    /\ BtFinds("bt_username")
    /\ UNCHANGED <<notBsp, nestVars, sent, start_time>>

BtUsername ==
    /\ pc = "bt_username"
    /\ IF bsp_username_pattern(output)
       THEN BtReads(ONE_SECOND, "bt_password")
       ELSE SkipTo("bt_password") /\ UNCHANGED now
    /\ UNCHANGED <<notBsp, nestVars, sent, start_time>>

BtPassword ==
    /\ pc = "bt_password"
    /\ IF bsp_pwd_pattern(output)
       THEN \/ \E t \in BspTexts :
                 IF bsp_pri_prompt(t) \/ bsp_alt_prompt(t)
                 THEN /\ Returns(t) /\ \E op \in OpTicks : now' = now + op
                      /\ sent' = Append(sent, password)
                 ELSE IF bsp_pwd_pattern(t)
                 THEN /\ BtReads(1, "bt_noneset")
                      /\ sent' = sent \o <<password, password>>
                 ELSE /\ output' = t
                      /\ pc' = "bt_noneset"
                      /\ \E op \in OpTicks : now' = now + op
                      /\ sent' = Append(sent, password)
                      /\ UNCHANGED <<closed, outcome, eof>>
            \/ /\ BspEof /\ \E op \in OpTicks : now' = now + op
               /\ sent' = Append(sent, password)
       ELSE SkipTo("bt_noneset") /\ UNCHANGED <<now, sent>>
    /\ UNCHANGED <<notBsp, nestVars, start_time>>

\* "assword required, but none set"
BtNoneSet ==
    /\ pc = "bt_noneset"
    /\ IF none_set_pattern(output) THEN BspFails(output) ELSE SkipTo("bt_check")
    /\ UNCHANGED <<notBsp, nestVars, sent, now, start_time>>

\* the return at the BSP prompt; otherwise a bare return and the next iteration
BtCheck ==
    /\ pc = "bt_check"
    /\ IF bsp_pri_prompt(output) \/ bsp_alt_prompt(output)
       THEN Returns(output)
       ELSE SkipTo("bt_loop")
    /\ UNCHANGED <<notBsp, nestVars, sent, now, start_time>>

\* the last check: a bare return, five seconds, one read
BtLast ==
    /\ pc = "bt_last"
    /\ \E op \in OpTicks : now' = now + FIVE_SECONDS + op
    /\ \/ \E t \in BspTexts :
            IF bsp_pri_prompt(t) \/ bsp_alt_prompt(t) THEN Returns(t) ELSE BspFails(t)
       \/ EofOutsideTry
    /\ UNCHANGED <<notBsp, nestVars, sent, start_time>>

---------------------------------------------------------------------------
(* The login dialogs together                                              *)

LoginDialogs == {"telnet_login", "bsp_telnet_login", "bmc_login"}

InitLogin ==
    /\ closed = FALSE
    /\ chan = <<>>
    /\ io = <<>>
    /\ now = 0
    /\ dialog \in LoginDialogs
    /\ read_timeout \in IF dialog = "telnet_login" THEN {MaxTimeout} ELSE 1..MaxTimeout
    /\ max_loops \in IF dialog = "telnet_login" THEN 0..MaxLoops ELSE {0}
    /\ pc = "idle"
    /\ pattern = ""
    /\ output = <<>>
    /\ start_time = 0
    /\ current_time = 0
    /\ closed_at_check = FALSE
    /\ outcome = "none"
    /\ ret = <<>>
    /\ emitted = 0
    /\ prompt = <<>>
    /\ wire = <<>>
    /\ banner = <<>>
    /\ impl = "xr"
    /\ args = NoArgs
    /\ command_string = <<>>
    /\ new_data = <<>>
    /\ msg = <<>>
    /\ commit_reply = <<>>
    /\ mode = "exec"
    /\ asking = FALSE
    /\ dirty = FALSE
    /\ skip_check = FALSE
    /\ cmd_verify = TRUE
    /\ pre_check = FALSE
    /\ post_check = FALSE
    /\ loop_i = 1
    /\ outer = 0
    /\ count = 0
    /\ my_password = password
    /\ sent = <<>>
    /\ at_bmc = FALSE
    /\ is_spitfire = FALSE
    /\ eof = FALSE
    /\ iters = 0
    /\ resets = 0
    /\ last_reads = 0
    /\ timeout_arg = READ_TIMEOUT_DEFAULT
    /\ expect_string = "None"
    /\ opts = DefaultOpts
    /\ stack = <<>>
    /\ base_prompt = Hostname
    /\ scs = NoSet
    /\ method = "login"

NextLogin ==
    \/ TlCall \/ TlLoop \/ TlRead \/ TlRebooted \/ TlBmc \/ TlLinux \/ TlNoLogin
    \/ TlNotStarted \/ TlStandby \/ TlUsername \/ TlPassword \/ TlSunstone
    \/ TlInitial \/ TlInitialLoop \/ TlNoneSet \/ TlCheck \/ TlReset \/ TlLast
    \/ BlCall \/ BlLoop \/ BlFind \/ BlUsername \/ BlPassword \/ BlLast
    \/ BtCall \/ BtLoop \/ BtRead \/ BtProbe \/ BtBmc \/ BsCall \/ BsLoop \/ BtAfter
    \/ BtUsername \/ BtPassword
    \/ BtNoneSet \/ BtCheck \/ BtLast

SpecLogin == InitLogin /\ [][NextLogin]_vars

\* every step of a login that has not ended is taken eventually
FairLogin == SpecLogin /\ WF_vars(NextLogin)

---------------------------------------------------------------------------
(* Claims about the login dialogs                                          *)

AuthFailed == pc = "done" /\ outcome = "NetmikoAuthenticationException"

\* C11: whenever a login dialog (telnet_login of CiscoBaseConnection or of
\* CiscoBspTelnet, or bmc_login) ends with the authentication failure, the
\* transport has been closed.
C11_ClosedOnFailure == AuthFailed => closed

\* C12: an EOFError of a channel operation of CiscoBaseConnection.telnet_login
\* ends the login at once with the authentication failure.
C12_EofIsAuthFailure ==
    (dialog = "telnet_login" /\ eof)
      => (pc = "done" /\ outcome = "NetmikoAuthenticationException")

\* C13: telnet_login ends for every device behaviour; it makes at most 3 outer
\* passes of floor(max_loops / 3) inner iterations each, writes one bare return
\* after each pass, reads once more after the third pass, and raises the
\* authentication failure when that read shows no prompt terminator.
C13_Terminates ==
    /\ dialog = "telnet_login" => <>(pc = "done")
    /\ [](dialog = "telnet_login"
            => /\ outer <= 3
               /\ loop_i <= (max_loops \div 3) + 1
               /\ iters <= outer * (max_loops \div 3) + loop_i
               /\ iters <= 3 * (max_loops \div 3)
               /\ resets = outer
               /\ last_reads <= 1
               /\ pc = "tl_last" => (outer = 3 /\ last_reads = 0)
               /\ last_reads = 1
                    => /\ pc = "done" /\ outer = 3
                       /\ IF PriPrompt(output) \/ AltPrompt(output)
                          THEN outcome = "return"
                          ELSE outcome = "NetmikoAuthenticationException" /\ closed)

\* C13 witness: all passes of two iterations were made and the last read showed
\* no prompt
C13_Witness ==
    /\ dialog = "telnet_login" /\ AuthFailed
    /\ max_loops = 7 /\ iters = 6 /\ resets = 3 /\ last_reads = 1
    /\ output = T_Refused

---------------------------------------------------------------------------
(* CiscoVxrSSH.send_command                                                *)
(*                                                                         *)
(* One call, with normalize at its default and ansi_escape_codes and       *)
(* use_textfsm off.  The device sends the chunks of SendChunks while the   *)
(* call runs; the call that the slow-operation banner makes to             *)
(* send_command itself runs on the same actions, the waiting call being    *)
(* kept on stack.                                                          *)

BACKSPACE_CHAR == "\\x08"
config_large_msg == <<"This could be a few minutes if your config is large">>

\* the command sent
ShowCommand == <<"show">>

\* what the device may send while send_command waits: the echo, a line of
\* output, the slow-operation banner, the prompt, the prompt with the banner
\* printed once more after it, an echo repainted with backspaces
SendChunks ==
    { ShowCommand \o <<NL>>,
      <<"data", NL>>,
      config_large_msg \o <<NL>>,
      RealPrompt,
      RealPrompt \o <<NL>> \o config_large_msg \o <<NL>>,
      <<"sh", BACKSPACE_CHAR>> \o RealPrompt \o ShowCommand \o <<NL>> }

\* the values passed as expect_string
ExpectStrings == {"None", "#$"}

\* the flags of the call send_command makes to itself (lines 300-301)
NestedOpts == [auto_find_prompt |-> FALSE, strip_prompt |-> FALSE, strip_command |-> FALSE]

\* the flag combinations tried
SendOpts == { DefaultOpts, [DefaultOpts EXCEPT !.auto_find_prompt = FALSE], NestedOpts }

\* re.escape(prompt.strip()), for the prompts of this device
Escape(t) ==
    CASE t = RealPrompt  -> "Router\\#"
      [] t = base_prompt -> "Router"
      [] OTHER           -> ""

\* the positions where a match of p in s begins
MatchStart(p, s) ==
    CASE p = "Router\\#" -> { i \in 1..Len(s) - 1 : s[i] = "Router" /\ s[i + 1] = "#" }
      [] p = "Router"    -> { i \in 1..Len(s) : s[i] = "Router" }
      [] p = "#$"        -> { i \in 1..Len(s) :
                                /\ s[i] = "#"
                                /\ i = Len(s) \/ (i = Len(s) - 1 /\ s[Len(s)] = NL) }
      [] OTHER           -> {}

\* re.search(search_pattern, output)
SearchSend(p, s) == MatchStart(p, s) # {}

\* output.split(self.RETURN)[0] and what follows it
FirstLine(s) ==
    IF \E i \in 1..Len(s) : s[i] = NL
    THEN SubSeq(s, 1, (CHOOSE i \in 1..Len(s) : s[i] = NL /\ \A j \in 1..(i - 1) : s[j] # NL) - 1)
    ELSE s

AfterFirstLine(s) == SubSeq(s, Len(FirstLine(s)) + 1, Len(s))

\* re.sub(search_pattern + r'.*$', repl='', string=first_line)
CutFromMatch(p, line) ==
    LET M == MatchStart(p, line)
    IN  IF M = {} THEN line
        ELSE SubSeq(line, 1, (CHOOSE i \in M : \A j \in M : i <= j) - 1)

\* (mutant) the first line is repainted whether or not it holds a backspace
EchoRepaint_Always(out, p) == CutFromMatch(p, FirstLine(out)) \o AfterFirstLine(out)

\* lines 285-293: the first line loses the pattern and what follows it when it
\* holds a backspace
EchoRepaint(out, p) ==
    IF \E i \in 1..Len(FirstLine(out)) : FirstLine(out)[i] = BACKSPACE_CHAR
    THEN CutFromMatch(p, FirstLine(out)) \o AfterFirstLine(out)
    ELSE out

\* BaseConnection.strip_command: backspaces go, and the first line goes when
\* the output begins with the command
StripCommand(cmd, out) ==
    LET o == SelectSeq(out, LAMBDA a : a # BACKSPACE_CHAR)
    IN  IF Len(o) >= Len(cmd) /\ SubSeq(o, 1, Len(cmd)) = cmd
        THEN (IF AfterFirstLine(o) = <<>> THEN <<>> ELSE Tail(AfterFirstLine(o)))
        ELSE o

\* BaseConnection.strip_prompt: the last line goes when it holds base_prompt
StripPrompt(out) ==
    IF Contains(base_prompt, LastLine(out))
    THEN SubSeq(out, 1, Len(out) - Len(LastLine(out)) - 1)
    ELSE out

\* BaseConnection._sanitize_output
Sanitize(out, o, cmd) ==
    LET a == NormalizeLinefeeds(out)
        b == IF o.strip_command /\ cmd # <<>> THEN StripCommand(NormalizeLinefeeds(cmd), a) ELSE a
    IN  IF o.strip_prompt THEN StripPrompt(b) ELSE b

\* the first clock reading, on the grid of the sleeps, that is no earlier than t
OnGrid(t) == ((t + LOOP_DELAY - 1) \div LOOP_DELAY) * LOOP_DELAY

notSend == <<read_timeout, sessVars, scs, wire, banner, impl, args, commit_reply, cfgVars, loginVars>>

\* (mutant) the exception of the timeout does not depend on expect_string
TimeoutError_Pattern(e) == "PatternNotFoundException"

\* lines 317-326: which exception the timeout raises
TimeoutError(e) ==
    IF e = "None" THEN "PromptNotFoundException" ELSE "PatternNotFoundException"

\* the call and its arguments (lines 204-253)
ScCall ==
    /\ pc = "idle"
    /\ command_string' = ShowCommand
    /\ \E e \in ExpectStrings : expect_string' = e
    /\ \E o \in SendOpts : opts' = o
    /\ \E t \in ArgTimeouts : timeout_arg' = t
    /\ pc' = "sc_prompt"
    /\ UNCHANGED <<notSend, chanVars, pattern, output, start_time, current_time,
                   closed_at_check, outcome, ret, prompt, emitted, new_data, msg, stack>>

\* lines 256-264: search_pattern.  self.find_prompt() is taken as a whole: it
\* clears the buffer, writes the return character and reads until it has the
\* prompt, the channel is closed or self.read_timeout has passed.
ScPrompt ==
    /\ pc = "sc_prompt"
    /\ IF expect_string # "None"
       THEN /\ pattern' = expect_string
            /\ pc' = "sc_write"
            /\ UNCHANGED <<chanVars, prompt, outcome>>
       ELSE IF ~opts.auto_find_prompt
       THEN /\ prompt' = base_prompt
            /\ pattern' = Escape(Strip(base_prompt))
            /\ pc' = "sc_write"
            /\ UNCHANGED <<chanVars, outcome>>
       ELSE IF WriteFails
       THEN /\ io' = Append(io, Ev("clear", <<>>))
            /\ outcome' = "SessionDownException"
            /\ pc' = "done"
            /\ UNCHANGED <<closed, chan, now, prompt, pattern>>
       ELSE \/ /\ prompt' = RealPrompt
               /\ pattern' = Escape(Strip(RealPrompt))
               /\ chan' = <<>>
               /\ io' = io \o <<Ev("clear", <<>>), Ev("write", RETURN),
                                Ev("read", RealPrompt), Ev("clear", <<>>)>>
               /\ now' = now + 2 * LOOP_DELAY
               /\ pc' = "sc_write"
               /\ UNCHANGED <<closed, outcome>>
            \/ /\ chan' = <<>>
               /\ io' = io \o <<Ev("clear", <<>>), Ev("write", RETURN)>>
               /\ now' = now + LOOP_DELAY + OnGrid(read_timeout)
               /\ outcome' = "PromptNotFoundException"
               /\ pc' = "done"
               /\ UNCHANGED <<closed, prompt, pattern>>
            \/ /\ chan' = <<>>
               /\ io' = io \o <<Ev("clear", <<>>), Ev("write", RETURN)>>
               /\ now' = now + LOOP_DELAY
               /\ closed' = TRUE
               /\ outcome' = "SessionDownException"
               /\ pc' = "done"
               /\ UNCHANGED <<prompt, pattern>>
    /\ UNCHANGED <<notSend, output, start_time, current_time, closed_at_check, ret,
                   emitted, command_string, new_data, msg, sendVars, timeout_arg>>

\* lines 266-274: normalize_cmd, clear_buffer, write_channel, the clock is read
ScWrite ==
    /\ pc = "sc_write"
    /\ command_string' = NormalizeCmd(command_string)
    /\ chan' = <<>>
    /\ IF WriteFails
       THEN /\ io' = Append(io, Ev("clear", <<>>))
            /\ outcome' = "SessionDownException"
            /\ pc' = "done"
            /\ UNCHANGED <<output, start_time, current_time>>
       ELSE /\ io' = io \o <<Ev("clear", <<>>), Ev("write", NormalizeCmd(command_string))>>
            /\ output' = <<>>
            /\ start_time' = now
            /\ current_time' = now
            /\ pc' = "sc_loop"
            /\ UNCHANGED outcome
    /\ UNCHANGED <<notSend, closed, now, pattern, closed_at_check, ret, prompt, emitted,
                   new_data, msg, sendVars, timeout_arg>>

\* line 277: while current_time - start_time < self.read_timeout and not closed
ScLoop ==
    /\ pc = "sc_loop"
    /\ closed_at_check' = (InTime /\ closed)
    /\ pc' = IF InTime /\ ~closed THEN "sc_read" ELSE "sc_else"
    /\ UNCHANGED <<notSend, chanVars, pattern, output, start_time, current_time, outcome,
                   ret, prompt, emitted, command_string, new_data, msg, sendVars,
                   timeout_arg>>

\* (mutant) the slow-operation banner ends the wait
AfterSlowBanner_Breaks == "sc_break"

\* lines 299-301: the banner without the pattern leads to the nested call
AfterSlowBanner == "sc_nested"

\* lines 278-308: one iteration.  Text was read: it is appended, the echo line
\* is repainted, and the pattern, then the banner, is searched.  Nothing was
\* read: time.sleep(LOOP_DELAY).  current_time = time.time() ends the iteration.
ScRead ==
    /\ pc = "sc_read"
    /\ new_data' = ReadChannel
    /\ chan' = <<>>
    /\ io' = Append(io, Ev("read", ReadChannel))
    /\ IF ReadChannel # <<>>
       THEN /\ output' = EchoRepaint(output \o ReadChannel, pattern)
            /\ UNCHANGED now
            /\ IF SearchSend(pattern, output')
               THEN pc' = "sc_break" /\ UNCHANGED current_time
               ELSE IF Contains(config_large_msg, output')
               THEN pc' = AfterSlowBanner /\ UNCHANGED current_time
               ELSE pc' = "sc_loop" /\ current_time' = now
       ELSE /\ now' = now + LOOP_DELAY
            /\ current_time' = now + LOOP_DELAY
            /\ pc' = "sc_loop"
            /\ UNCHANGED output
    /\ UNCHANGED <<notSend, closed, pattern, start_time, closed_at_check, outcome, ret,
                   prompt, emitted, command_string, msg, sendVars, timeout_arg>>

\* lines 300-301: self.send_command(command_string=self.RETURN,
\* auto_find_prompt=False, strip_prompt=False, strip_command=False)
ScNested ==
    /\ pc = "sc_nested"
    /\ stack' = Append(stack, [output |-> output, pattern |-> pattern,
                               command_string |-> command_string,
                               start_time |-> start_time,
                               expect_string |-> expect_string, opts |-> opts,
                               timeout_arg |-> timeout_arg])
    /\ command_string' = RETURN
    /\ expect_string' = "None"
    /\ opts' = NestedOpts
    /\ timeout_arg' = READ_TIMEOUT_DEFAULT
    /\ pc' = "sc_prompt"
    /\ UNCHANGED <<notSend, chanVars, pattern, output, start_time, current_time,
                   closed_at_check, outcome, ret, prompt, emitted, new_data, msg>>

\* lines 310-326: the loop ended without a break
ScElse ==
    /\ pc = "sc_else"
    /\ outcome' = IF closed THEN "SessionDownException" ELSE TimeoutError(expect_string)
    /\ msg' = IF closed THEN <<pattern>> ELSE <<pattern, output>>
    /\ ret' = <<>>
    /\ pc' = "done"
    /\ UNCHANGED <<notSend, chanVars, pattern, output, start_time, current_time,
                   closed_at_check, prompt, emitted, command_string, new_data, sendVars,
                   timeout_arg>>

\* lines 327-332 and, in the waiting call, lines 300-308: the output is
\* sanitized and returned; the waiting call takes it as its output, appends one
\* more read and searches its own pattern
ScBreak ==
    /\ pc = "sc_break"
    /\ LET clean == Sanitize(output, opts, command_string)
       IN  IF stack = <<>>
           THEN /\ ret' = clean
                /\ outcome' = "return"
                /\ pc' = "done"
                /\ UNCHANGED <<chanVars, pattern, output, start_time, current_time,
                               command_string, new_data, sendVars, timeout_arg>>
           ELSE LET f == stack[Len(stack)]
                IN  /\ stack' = SubSeq(stack, 1, Len(stack) - 1)
                    /\ pattern' = f.pattern
                    /\ command_string' = f.command_string
                    /\ start_time' = f.start_time
                    /\ expect_string' = f.expect_string
                    /\ opts' = f.opts
                    /\ timeout_arg' = f.timeout_arg
                    /\ output' = clean \o ReadChannel
                    /\ new_data' = ReadChannel
                    /\ chan' = <<>>
                    /\ io' = Append(io, Ev("read", ReadChannel))
                    /\ IF SearchSend(f.pattern, output')
                       THEN pc' = "sc_break" /\ UNCHANGED current_time
                       ELSE pc' = "sc_loop" /\ current_time' = now
                    /\ UNCHANGED <<closed, now, outcome, ret>>
    /\ UNCHANGED <<notSend, closed_at_check, prompt, emitted, msg>>

\* the device sends a chunk
SendEmit ==
    /\ pc \in {"sc_prompt", "sc_write", "sc_loop", "sc_read", "sc_nested", "sc_break"}
    /\ ~closed
    /\ emitted < MaxChunks
    /\ \E c \in SendChunks : chan' = chan \o c
    /\ emitted' = emitted + 1
    /\ UNCHANGED <<notSend, closed, io, now, callVars, prompt, command_string, new_data,
                   msg, sendVars, timeout_arg>>

SendCloses ==
    /\ pc \in {"sc_prompt", "sc_write", "sc_loop", "sc_read", "sc_nested", "sc_break"}
    /\ ~closed
    /\ closed' = TRUE
    /\ UNCHANGED <<notSend, chan, io, now, callVars, prompt, emitted, command_string,
                   new_data, msg, sendVars, timeout_arg>>

InitSend ==
    /\ InitIdle
    /\ now = 0
    /\ method = "send_command"

NextSend ==
    \/ ScCall
    \/ ScPrompt
    \/ ScWrite
    \/ ScLoop
    \/ ScRead
    \/ ScNested
    \/ ScElse
    \/ ScBreak
    \/ SendEmit
    \/ SendCloses

SpecSend == InitSend /\ [][NextSend]_vars

---------------------------------------------------------------------------
(* Claims about the waits of read_until_pattern and send_command           *)

\* the wait of the call has ended with its timeout error
TimedOut ==
    /\ pc = "done"
    /\ \/ outcome = "PatternNotFoundException"
       \/ outcome = "PromptNotFoundException" /\ msg # <<>>

WaitRunning == RupRunning \/ pc \in {"sc_loop", "sc_read", "sc_else"}

\* C14: when read_until_pattern or send_command is called with an explicit
\* read_timeout argument, a wait that never matches on an open channel ends
\* with the timeout error no earlier than that argument after the wait began
\* and no later than one poll interval after it, whatever self.read_timeout is.
C14_PerCallTimeout ==
    (timeout_arg # READ_TIMEOUT_DEFAULT /\ stack = <<>>)
      => /\ TimedOut => /\ now - start_time >= timeout_arg
                        /\ now - start_time <= timeout_arg + LOOP_DELAY
         /\ WaitRunning => now - start_time <= timeout_arg + LOOP_DELAY

\* the loop of send_command has ended without a break
LoopExhausted == pc = "done" /\ msg # <<>>

---------------------------------------------------------------------------
(* Claims about the outcomes of find_prompt                                *)

\* a read of find_prompt that it would take as the prompt
Acceptable(t) == Strip(t) # <<>> /\ ~IsTransient(Strip(t))

\* C16 (as claimed): a channel that is closed during the wait makes find_prompt
\* end with SessionDownException: no read made on a closed channel is taken as
\* the prompt.
C16_Original == [][(pc = "fp_read" /\ closed) => pc' # "fp_break"]_vars

\* C16 (amended): find_prompt leaves its loop for the else branch exactly when
\* the loop condition finds the channel closed or the read timeout elapsed; it
\* then raises SessionDownException if the channel is closed, also when the
\* timeout has elapsed as well, and PromptNotFoundException otherwise, and
\* returns no prompt.  PromptNotFoundException means that the timeout elapsed
\* and no read was non-empty and free of transient banners.
C16_LoopExit ==
    /\ [][pc = "fp_loop" /\ pc' # "fp_loop"
            => (pc' = "fp_else" <=> (closed \/ current_time - start_time >= read_timeout))]_vars
    /\ [][pc = "fp_else" /\ pc' = "done"
            => /\ outcome' = IF closed THEN "SessionDownException"
                             ELSE "PromptNotFoundException"
               /\ ret' = <<>>]_vars
    /\ [](pc = "done" /\ outcome = "SessionDownException" => closed /\ ret = <<>>)
    /\ [](pc = "done" /\ outcome = "PromptNotFoundException"
            => /\ ~closed /\ ret = <<>>
               /\ now - start_time >= read_timeout
               /\ \A i \in Reads : ~Acceptable(io[i].data))

\* C16 witness: the channel was closed and the timeout had elapsed when the loop
\* condition was evaluated after a read
C16_Witness ==
    /\ pc = "done" /\ outcome = "SessionDownException"
    /\ closed /\ current_time - start_time >= read_timeout
    /\ Reads # {}

\* the reads of the call that find_prompt would take as the prompt
AcceptableReads == { i \in Reads : Acceptable(io[i].data) }

---------------------------------------------------------------------------
(* Claims about the value read_until_pattern returns                       *)

\* the data of the read events io[k..], joined in order
RECURSIVE ReadsFrom(_)
ReadsFrom(k) ==
    IF k > Len(io) THEN <<>>
    ELSE (IF io[k].op = "read" THEN io[k].data ELSE <<>>) \o ReadsFrom(k + 1)

\* C18: when read_until_pattern returns, the value is the concatenation, in
\* order, of every chunk the call read from the channel, the text after the
\* match included; the channel keeps nothing of what was read.
C18_AllChunks ==
    /\ RupRunning => output = ReadsFrom(1)
    /\ (pc = "done" /\ outcome = "return" /\ pattern \in WaitPatterns)
          => /\ ret = ReadsFrom(1)
             /\ Search(pattern, ret)

\* C18 witness: the call returned after more than one read, and the text
\* returned goes on after the match
C18_Witness ==
    /\ pc = "done" /\ outcome = "return" /\ pattern = "[>#]"
    /\ Len(io) >= 2
    /\ Len(ret) >= 2 /\ ret[1] = "#" /\ ret[Len(ret)] # "#"

---------------------------------------------------------------------------
(* Claims about the errors of config_mode and exit_config_mode             *)

WaitErrors == {"SessionDownException", "PatternNotFoundException"}

\* C19: CiscoVxrSSH.config_mode raises ConfigModeEnterError only after its wait
\* for the config pattern has matched and the check_config_mode that follows
\* has reported that the device is not in config mode; a wait that ends in a
\* timeout or with the session down ends config_mode with
\* PatternNotFoundException or SessionDownException, and so does a failure of
\* the check.
C19_EnterError ==
    /\ [][(impl = "vxr" /\ outcome' = "ConfigModeEnterError" /\ outcome = "none")
            => /\ pc = "cfg_check"
               /\ SearchMode("Router.*config", output)
               /\ io'[Len(io')] = Ev("read", new_data')
               /\ Search("[#\\$]", new_data')
               /\ ~Contains(<<")", "#">>, new_data')]_vars
    /\ [][(impl = "vxr" /\ pc = "cfg_send" /\ pc' # "cfg_send")
            => IF SearchMode("Router.*config", new_data')
               THEN pc' = "cfg_check" /\ outcome' = "none"
               ELSE pc' = "done" /\ outcome' \in WaitErrors]_vars
    /\ [][(impl = "vxr" /\ pc = "cfg_check" /\ pc' # "cfg_check"
             /\ ~Search("[#\\$]", new_data'))
            => pc' = "done" /\ outcome' \in WaitErrors]_vars
    /\ [](impl = "vxr" /\ pc = "cfg_check"
            => outcome = "none" /\ SearchMode("Router.*config", output))

\* C19 witness: the config command was written, the wait matched, and the
\* check that followed found no config prompt
C19_Witness ==
    /\ impl = "vxr" /\ pc = "done" /\ outcome = "ConfigModeEnterError"
    /\ WroteText(config_term)
    /\ SearchMode("Router.*config", output)
    /\ ~Contains(<<")", "#">>, new_data)

\* the positions inside exit_config_mode
ExitPcs == {"exit_call", "exit_send", "xr_exit_wait", "exit_dialog", "exit_check"}

\* what check_config_mode returns for the text its wait returned
ReportsConfig(i, out) ==
    IF i = "xr"
    THEN Contains(<<")", "#">>, RemoveAll(out, <<"(", "admin", ")">>))
    ELSE Contains(<<")", "#">>, out)

\* the step is a check_config_mode that returned v
Checked(v) ==
    /\ pc \in {"exit_call", "exit_check"}
    /\ Len(io') = Len(io) + 2
    /\ io'[Len(io) + 1] = Ev("write", RETURN)
    /\ io'[Len(io')] = Ev("read", new_data')
    /\ Search("[#\\$]", new_data')
    /\ ReportsConfig(impl, new_data') = v

\* the step writes the return character of check_config_mode
WritesReturn == \E k \in (Len(io) + 1)..Len(io') : io'[k] = Ev("write", RETURN)

\* C20: with skip_check false, exit_config_mode returns normally only when the
\* last check_config_mode it made reported that the device is not in config
\* mode, and raises ConfigModeExitError when the check after the exit command
\* reported config mode; with skip_check true it makes no check_config_mode,
\* neither before the exit command nor after it.
C20_ExitChecks ==
    /\ [][(~skip_check /\ pc \in ExitPcs /\ pc' = "post")
            => outcome' = "none" /\ Checked(FALSE)]_vars
    /\ [][(pc = "exit_check" /\ pc' # "exit_check" /\ Checked(TRUE))
            => pc' = "done" /\ outcome' = "ConfigModeExitError"]_vars
    /\ [][(outcome' = "ConfigModeExitError" /\ outcome = "none")
            => ~skip_check /\ pc = "exit_check" /\ Checked(TRUE)]_vars
    /\ [][(skip_check /\ pc \in ExitPcs) => ~WritesReturn /\ pc' # "exit_check"]_vars
    /\ [](skip_check => pc # "exit_check")

\* C20 witness: the exit command was sent, and the check after it still found
\* the config prompt
C20_Witness ==
    /\ ~skip_check /\ pc = "done" /\ outcome = "ConfigModeExitError"
    /\ WroteText(exit_config)
    /\ ReportsConfig(impl, new_data)

---------------------------------------------------------------------------
(* CiscoVxrSSH.send_config_set: config_mode, then each line of each        *)
(* command with a wait for the config prompt, then exit_config_mode when   *)
(* asked, then _sanitize_output.                                           *)

ConfigLineA == Words(<<"hostname", "r1">>)
ConfigLineB == Words(<<"logging", "on">>)

\* the config_commands tried: None, a number, and lists of commands already
\* split at "\n" (a string is the list of its lines)
ConfigCommandArgs ==
    { [kind |-> "None", lines |-> <<>>],
      [kind |-> "number", lines |-> <<>>],
      [kind |-> "list", lines |-> <<>>],
      [kind |-> "str", lines |-> <<ConfigLineA>>],
      [kind |-> "list", lines |-> <<ConfigLineA, ConfigLineB>>],
      [kind |-> "str", lines |-> <<ConfigLineA, exit_config>>],
      [kind |-> "str", lines |-> <<ConfigLineA, <<>> >>] }

\* send_config_set up to output = self.config_mode(*cfg_mode_args)
ScsCall ==
    /\ pc = "idle"
    /\ \E cc \in ConfigCommandArgs, ex \in BOOLEAN :
         IF cc.kind = "None"
         THEN /\ scs' = [NoSet EXCEPT !.on = TRUE]
              /\ ret' = <<>>
              /\ outcome' = "return"
              /\ pc' = "done"
         ELSE IF cc.kind = "number"
         THEN /\ scs' = [NoSet EXCEPT !.on = TRUE]
              /\ outcome' = "ValueError"
              /\ pc' = "done"
              /\ UNCHANGED ret
         ELSE /\ scs' = [on |-> TRUE, todo |-> cc.lines, exit |-> ex, saved |-> <<>>]
              /\ pc' = "cfg_call"
              /\ UNCHANGED <<ret, outcome>>
    /\ UNCHANGED <<notConfig, chan, io, closed, devVars, output, new_data, pre_check, post_check>>

\* (mutant) the loop goes on to the next command whatever the wait reported
AfterCommand_Retry == pc' = "scs_loop"

\* except SessionDownException / except PatternNotFoundException: raise; otherwise
\* the next command
AfterCommand == Goto("scs_loop")

\* for command in commands: write_channel(normalize_cmd(command)), then
\* output += read_until_pattern(r'\)#$'); either exception of the wait is raised
\* again with a message of send_config_set
ScsCommand ==
    /\ pc = "scs_loop"
    /\ scs.todo # <<>>
    /\ \E w \in WaitResults :
         /\ Dialog(NormalizeCmd(Head(scs.todo)), "\\)#$", w)
         /\ outcome' = w
    /\ output' = output \o new_data'
    /\ scs' = [scs EXCEPT !.todo = Tail(@)]
    /\ AfterCommand
    /\ UNCHANGED <<notConfig, ret, pre_check, post_check>>

\* if exit_config_mode: output += self.exit_config_mode()
ScsExit ==
    /\ pc = "scs_loop"
    /\ scs.todo = <<>>
    /\ scs' = [scs EXCEPT !.saved = output]
    /\ pc' = IF scs.exit THEN "exit_call" ELSE "post"
    /\ new_data' = <<>>
    /\ ret' = <<>>
    /\ UNCHANGED <<notConfig, chan, io, closed, devVars, output, outcome, pre_check, post_check>>

\* output = self._sanitize_output(output); return output
ScsReturn ==
    /\ pc = "post"
    /\ scs.on
    /\ output' = scs.saved \o ret
    /\ ret' = Sanitize(output', [strip_command |-> FALSE, strip_prompt |-> FALSE], <<>>)
    /\ outcome' = "return"
    /\ pc' = "done"
    /\ UNCHANGED <<notConfig, scs, chan, io, closed, devVars, new_data, pre_check, post_check>>

InitConfigSet ==
    /\ closed = FALSE
    /\ chan = <<>>
    /\ io = <<>>
    /\ now = 0
    /\ read_timeout = MaxTimeout
    /\ pc = "idle"
    /\ pattern = ""
    /\ output = <<>>
    /\ start_time = 0
    /\ current_time = 0
    /\ closed_at_check = FALSE
    /\ outcome = "none"
    /\ ret = <<>>
    /\ emitted = 0
    /\ prompt = <<>>
    /\ wire = <<>>
    /\ banner = <<>>
    /\ impl = "vxr"
    /\ args = NoArgs
    /\ command_string = <<>>
    /\ new_data = <<>>
    /\ msg = <<>>
    /\ commit_reply = <<>>
    /\ mode \in Modes
    /\ asking = FALSE
    /\ dirty \in IF mode \in ConfigModes THEN BOOLEAN ELSE {FALSE}
    /\ skip_check = FALSE
    /\ cmd_verify = TRUE
    /\ pre_check = FALSE
    /\ post_check = FALSE
    /\ dialog = "none"
    /\ max_loops = 0
    /\ loop_i = 1
    /\ outer = 0
    /\ count = 0
    /\ my_password = "password"
    /\ sent = <<>>
    /\ at_bmc = FALSE
    /\ is_spitfire = FALSE
    /\ eof = FALSE
    /\ iters = 0
    /\ resets = 0
    /\ last_reads = 0
    /\ timeout_arg = READ_TIMEOUT_DEFAULT
    /\ expect_string = "None"
    /\ opts = DefaultOpts
    /\ stack = <<>>
    /\ base_prompt = Hostname
    /\ scs = NoSet
    /\ method = "send_config_set"

NextConfigSet ==
    \/ ScsCall
    \/ CfgCall
    \/ CfgSend
    \/ CfgCheck
    \/ ScsCommand
    \/ ScsExit
    \/ ExitCall
    \/ ExitSend
    \/ ExitDialog
    \/ ExitCheck
    \/ ScsReturn
    \/ ConfigChannelCloses

SpecConfigSet == InitConfigSet /\ [][NextConfigSet]_vars

---------------------------------------------------------------------------
(* CiscoXrTelnet.set_base_prompt.  Each find_prompt call is one step: it   *)
(* writes a return and reads, and returns a prompt line or raises.         *)

standby_prompt == "RP Node is not "

\* the prompt lines find_prompt may return
FoundPrompts ==
    { <<"Router", "#">>, <<"Router", ">">>, <<"Router", "(", "config", ")", "#">>,
      <<"Router", "#", "$">>, <<standby_prompt, "ready">> }

\* re.search(r"(\#|>)", line)
HasTerminator(line) == \E i \in 1..Len(line) : line[i] \in {"#", ">"}

FindPromptErrors == {"PromptNotFoundException", "SessionDownException"}

\* one find_prompt call: it raises e, or (e = "none") returns the line l
FindPromptStep(e, l, lines) ==
    IF closed
    THEN /\ e = "SessionDownException"
         /\ UNCHANGED <<chan, io>>
    ELSE /\ e \in {"none", "PromptNotFoundException"}
         /\ l \in lines
         /\ chan' = <<>>
         /\ io' = io \o <<Ev("write", RETURN)>>
                     \o (IF e = "none" THEN <<Ev("read", l)>> ELSE <<>>)

notSetPrompt == <<closed, now, read_timeout, method, scs, sendVars, timeout_arg, pattern, output,
                  start_time, current_time, closed_at_check, emitted, wire, banner, cmVars,
                  cfgVars, loginVars>>

\* out = self.find_prompt(); if standby_prompt in out: self.base_prompt = out
SbpCall ==
    /\ pc = "idle"
    /\ \E e \in {"none"} \cup FindPromptErrors, r \in FoundPrompts :
         /\ FindPromptStep(e, r, FoundPrompts)
         /\ IF e # "none"
            THEN /\ outcome' = e
                 /\ pc' = "done"
                 /\ UNCHANGED <<base_prompt, prompt, ret>>
            ELSE IF Contains(<<standby_prompt>>, r)
            THEN /\ base_prompt' = r
                 /\ ret' = r
                 /\ outcome' = "return"
                 /\ pc' = "done"
                 /\ UNCHANGED prompt
            ELSE /\ prompt' = r
                 /\ pc' = "sbp_find"
                 /\ UNCHANGED <<base_prompt, outcome, ret>>
    /\ UNCHANGED notSetPrompt

EndsInTerminator_Always(r) == TRUE

\* prompt[-1] in (pri_prompt_terminator, alt_prompt_terminator, standby_prompt)
EndsInTerminator(r) == r[Len(r)] \in {"#", ">", standby_prompt}

\* prompt = self.find_prompt(pattern=r"(\#|>)"); the terminator check;
\* self.base_prompt = prompt[:-1]
SbpFind ==
    /\ pc = "sbp_find"
    /\ \E e \in {"none"} \cup FindPromptErrors, r \in FoundPrompts :
         /\ FindPromptStep(e, r, { l \in FoundPrompts : HasTerminator(l) })
         /\ IF e # "none"
            THEN /\ outcome' = e
                 /\ UNCHANGED <<base_prompt, prompt, ret>>
            ELSE /\ prompt' = r
                 /\ IF EndsInTerminator(r)
                    THEN /\ base_prompt' = SubSeq(r, 1, Len(r) - 1)
                         /\ ret' = base_prompt'
                         /\ outcome' = "return"
                    ELSE /\ outcome' = "PromptNotFoundException"
                         /\ UNCHANGED <<base_prompt, ret>>
    /\ pc' = "done"
    /\ UNCHANGED notSetPrompt

\* the session goes down between the two find_prompt calls
SetPromptCloses ==
    /\ pc # "done"
    /\ ~closed
    /\ closed' = TRUE
    /\ UNCHANGED <<chan, io, now, read_timeout, sessVars, scs, sendVars, timeout_arg, callVars,
                   emitted, fpVars, cmVars, cfgVars, loginVars>>

InitSetPrompt ==
    /\ InitIdle
    /\ method = "set_base_prompt"

NextSetPrompt ==
    \/ SbpCall
    \/ SbpFind
    \/ SetPromptCloses

SpecSetPrompt == InitSetPrompt /\ [][NextSetPrompt]_vars

---------------------------------------------------------------------------
(* A session on which the caller runs one of the operations                *)

InitSession ==
    \/ InitWait
    \/ InitPrompt
    \/ InitSend
    \/ InitConfig
    \/ InitConfigSet
    \/ InitCommit
    \/ InitSetPrompt

NextSession ==
    \/ method = "read_until_pattern" /\ NextWait
    \/ method = "find_prompt" /\ NextPrompt
    \/ method = "send_command" /\ NextSend
    \/ method = "config_mode" /\ NextConfig
    \/ method = "send_config_set" /\ NextConfigSet
    \/ method = "commit" /\ NextCommit
    \/ method = "set_base_prompt" /\ NextSetPrompt

SpecSession == InitSession /\ [][NextSession]_vars

---------------------------------------------------------------------------
(* Claims about the session's operations                                   *)

ConfigMethods == {"config_mode", "send_config_set", "commit"}

\* the events a step appends to io hold no write after a read
NoWriteAfterRead ==
    \A j, k \in (Len(io) + 1)..Len(io') :
        (j < k /\ io'[j].op = "read") => io'[k].op # "write"

\* what C21 asks of one step of the operation
SessionDownStep ==
    method \in ConfigMethods
      => /\ (outcome = "none" /\ outcome' = "SessionDownException")
              => (pc' = "done" /\ NoWriteAfterRead)
         /\ (outcome = "SessionDownException")
              => (pc = "done" /\ io' = io /\ outcome' = outcome)

\* C21: in config_mode, exit_config_mode, send_config_set and commit, the step in
\* which a wait reports SessionDownException ends the operation (no retry, no
\* write after the wait's read), the operation has then raised
\* SessionDownException, and nothing is written to the channel afterwards.
C21_SessionDownEnds == [][SessionDownStep]_vars

\* C21 witness: send_config_set wrote a command, the wait after it reported
\* SessionDown, and the call has raised it
C21_Witness ==
    /\ method = "send_config_set"
    /\ pc = "done" /\ outcome = "SessionDownException"
    /\ Len(io) > 1
    /\ io[Len(io) - 1] = Ev("write", NormalizeCmd(ConfigLineA))
    /\ io[Len(io)].op = "read"
    /\ scs.todo # <<>>

\* the operations C22 names; find_prompt runs inside set_base_prompt and send_command
KeepingMethods ==
    {"read_until_pattern", "find_prompt", "send_command", "config_mode", "send_config_set", "commit"}

\* what C22 asks of one step
PromptKeptStep ==
    /\ method \in KeepingMethods => base_prompt' = base_prompt
    /\ base_prompt' # base_prompt => (method = "set_base_prompt" /\ outcome' = "return")

\* C22: no step of read_until_pattern, send_command, check_config_mode,
\* config_mode, exit_config_mode, send_config_set or commit changes base_prompt,
\* whether the operation succeeds or fails; the only steps that change it are
\* those of set_base_prompt, in the two assignments before its returns.
C22_PromptKept == [][PromptKeptStep]_vars

\* C22 witness: a send_config_set call has failed and base_prompt is what
\* set_base_prompt left
C22_Witness ==
    /\ method = "send_config_set"
    /\ pc = "done" /\ outcome = "PatternNotFoundException"
    /\ io # <<>>
    /\ base_prompt = Hostname

---------------------------------------------------------------------------
(* The echo-repaint correction of send_command (lines 283-295) as a        *)
(* function of the accumulated output and the search pattern: applied to   *)
(* a text just read, and once more to its own result, as the loop does     *)
(* after the next read.                                                    *)

\* longest accumulated output tried, in atoms
MaxText == 4

RepaintAtoms == {"Router", "#", "show", BACKSPACE_CHAR, NL}

RepaintTexts == UNION { [1..n -> RepaintAtoms] : n \in 0..MaxText }

\* re.escape of the prompt, and an expect_string anchored at the end
RepaintPatterns == {"Router\\#", "#$"}

InitRepaint ==
    /\ closed = FALSE
    /\ chan = <<>>
    /\ io = <<>>
    /\ now = 0
    /\ read_timeout = MaxTimeout
    /\ pc = "rp_read"
    /\ pattern \in RepaintPatterns
    /\ output = <<>>
    /\ start_time = 0
    /\ current_time = 0
    /\ closed_at_check = FALSE
    /\ outcome = "none"
    /\ ret = <<>>
    /\ emitted = 0
    /\ prompt = <<>>
    /\ wire = <<>>
    /\ banner = <<>>
    /\ impl = "vxr"
    /\ args = NoArgs
    /\ command_string = <<>>
    /\ new_data \in RepaintTexts
    /\ msg = <<>>
    /\ commit_reply = <<>>
    /\ mode = "exec"
    /\ asking = FALSE
    /\ dirty = FALSE
    /\ skip_check = FALSE
    /\ cmd_verify = TRUE
    /\ pre_check = FALSE
    /\ post_check = FALSE
    /\ dialog = "none"
    /\ max_loops = 0
    /\ loop_i = 1
    /\ outer = 0
    /\ count = 0
    /\ my_password = "password"
    /\ sent = <<>>
    /\ at_bmc = FALSE
    /\ is_spitfire = FALSE
    /\ eof = FALSE
    /\ iters = 0
    /\ resets = 0
    /\ last_reads = 0
    /\ timeout_arg = READ_TIMEOUT_DEFAULT
    /\ expect_string = "None"
    /\ opts = DefaultOpts
    /\ stack = <<>>
    /\ base_prompt = Hostname
    /\ scs = NoSet
    /\ method = "send_command"

\* output += new_data and the correction, for the text read
RepaintFirst ==
    /\ pc = "rp_read"
    /\ output' = EchoRepaint(new_data, pattern)
    /\ pc' = "rp_again"
    /\ UNCHANGED <<notSend, sendVars, chanVars, timeout_arg, pattern, start_time, current_time,
                   closed_at_check, outcome, ret, emitted, prompt, command_string, new_data, msg>>

\* the correction of the next iteration, applied to the corrected output
RepaintAgain ==
    /\ pc = "rp_again"
    /\ ret' = EchoRepaint(output, pattern)
    /\ pc' = "done"
    /\ UNCHANGED <<notSend, sendVars, chanVars, timeout_arg, pattern, output, start_time,
                   current_time, closed_at_check, outcome, emitted, prompt, command_string,
                   new_data, msg>>

NextRepaint ==
    \/ RepaintFirst
    \/ RepaintAgain

SpecRepaint == InitRepaint /\ [][NextRepaint]_vars

HasBackspace(s) == \E i \in 1..Len(s) : s[i] = BACKSPACE_CHAR

\* C23: the correction leaves an output without backspace unchanged, leaves
\* everything after the first line unchanged, and applied to its own result
\* changes nothing.
C23_Repaint ==
    pc = "done"
      => /\ ~HasBackspace(new_data) => output = new_data
         /\ AfterFirstLine(output) = AfterFirstLine(new_data)
         /\ ret = output

\* the first two parts of C23 alone
C23_FirstLineOnly ==
    pc # "rp_read"
      => /\ ~HasBackspace(new_data) => output = new_data
         /\ AfterFirstLine(output) = AfterFirstLine(new_data)

\* C23 with the prompt pattern: the correction is idempotent
C23_PromptIdempotent ==
    (pc = "done" /\ pattern = "Router\\#") => ret = output

---------------------------------------------------------------------------
(* Claims about the login dialogs, continued                               *)

\* what C24 asks of the prompt check at the end of an iteration
PromptCheckStep ==
    (pc = "tl_check" /\ pc' = "done" /\ outcome' = "return") => ~is_spitfire'

\* C24: at the end-of-iteration prompt check telnet_login returns only when no
\* spitfire marker (rebooted-BMC prompt, BMC prompt, x86 host prompt) has been
\* seen; once one has been seen the check does not return.
C24_PromptCheck == [][PromptCheckStep]_vars

\* the part of C24 that holds: with a marker seen, the check returns only on the
\* primary terminator
C24_AlternateOnly ==
    [][(pc = "tl_check" /\ pc' = "done" /\ outcome' = "return" /\ is_spitfire')
          => PriPrompt(output)]_vars

\* the passwords a step has written
NewlySent == SubSeq(sent', Len(sent) + 1, Len(sent'))

\* what C25 asks of a step of telnet_login that writes a password
PasswordChoiceStep ==
    (dialog = "telnet_login" /\ pc = "tl_password")
      => \A k \in 1..Len(NewlySent) :
           NewlySent[k] = IF at_bmc THEN bmc_password ELSE password

\* C25: every password telnet_login writes at a password prompt is the BMC
\* password when the last username was written at the BMC login banner, in this
\* iteration or an earlier one, and the configured password otherwise.
C25_PasswordChoice == [][PasswordChoiceStep]_vars

\* the part of C25 that holds: the password written is the one chosen at the
\* username step of the same iteration
C25_SameIteration ==
    [][(dialog = "telnet_login" /\ pc = "tl_password")
          => \A k \in 1..Len(NewlySent) : NewlySent[k] = my_password]_vars

\* the password exchange of the iteration is over and the device still asks
StillAsking ==
    \/ dialog = "telnet_login" /\ pc = "tl_sunstone" /\ pwd_pattern(output)
    \/ dialog = "bsp_telnet_login" /\ pc = "bt_noneset" /\ bsp_pwd_pattern(output)

SwitchWritten(log) == \E i \in 1..Len(log) : log[i] = Ev("write", bmc_to_bsp_cmd)

\* what C27 asks of one step of CiscoBspTelnet.telnet_login
SwitchStep ==
    dialog = "bsp_telnet_login"
      => /\ io' # io => (pc = "bs_loop" /\ bmc_prompt(prompt) /\ bmc_prompt(output))
         /\ (pc = "bt_bmc" /\ outcome' # "none") => (pc' = "done" /\ io' = io)
         /\ (pc = "bt_bmc" /\ pc' = "bt_switch") => bmc_prompt(prompt')
         /\ (pc = "bs_loop" /\ pc' \notin {"bs_loop", "done"})
              => (pc' = "bt_after" /\ outcome' = "none" /\ bsp_pri_prompt(output'))
         /\ (pc = "bt_after" /\ pc' # "done") => pc' = "bt_username"
         /\ pc = "done" => io' = io

\* C27: in CiscoBspTelnet.telnet_login the mode-switch command is written only
\* inside bmc_to_bsp_prompt, which starts only after the nested bmc_login has
\* returned at a text matching the BMC prompt pattern; a step in which the nested
\* login raises ends the call with nothing written; and when the switch has
\* reached the BSP prompt the login goes on with find_prompt and the username
\* check of the same iteration.  bmc_login itself returns only at such a prompt.
C27_SwitchAfterLogin ==
    /\ [][SwitchStep]_vars
    /\ [](dialog = "bsp_telnet_login" /\ pc \in {"bt_switch", "bs_loop"} => bmc_prompt(prompt))
    /\ [](dialog = "bsp_telnet_login" /\ SwitchWritten(io) => bmc_prompt(prompt))
    /\ [](dialog = "bmc_login" /\ pc = "done" /\ outcome = "return" => bmc_prompt(output))

\* C27 witness: the nested login returned, sol.sh was written, the switch reached
\* the BSP prompt and the login loop went on to the username check
C27_Witness ==
    /\ dialog = "bsp_telnet_login"
    /\ pc = "bt_username"
    /\ SwitchWritten(io)
    /\ prompt = <<"root@bmc:~", "#">>

---------------------------------------------------------------------------
(* C28: the banner retry of find_prompt                                    *)

\* the reads of the call whose text holds a transient banner
BannerReads == { i \in Reads : IsTransient(Strip(io[i].data)) }

\* the time one retry takes: the extra delay, and the delay after the write
RetryTicks == LOOP_DELAY + EXTRA_DELAY + LOOP_DELAY

\* one step of find_prompt around a read that holds a banner
BannerRetryStep ==
    /\ (pc = "fp_read" /\ pc' # pc /\ IsTransient(prompt'))
         => /\ pc' = "fp_retry"
            /\ now' = now + LOOP_DELAY + EXTRA_DELAY
            /\ io' = Append(io, Ev("read", ReadChannel))
            /\ outcome' = "none"
    /\ (pc = "fp_retry" /\ pc' # pc)
         => /\ pc' = "fp_rewrite"
            /\ io' = Append(io, Ev("clear", <<>>))
            /\ now' = now
    /\ (pc = "fp_rewrite" /\ pc' # pc)
         => \/ /\ pc' = "fp_loop"
               /\ io' = Append(io, Ev("write", RETURN))
            \/ /\ pc' = "done"
               /\ outcome' = "SessionDownException"
               /\ io' = io
    /\ (pc' = "fp_break" /\ pc' # pc) => (pc = "fp_read" /\ ~IsTransient(prompt'))

\* C28: a read of find_prompt whose text holds a transient banner is followed,
\* before any other read, by the extra delay, then one clear of the buffer, then
\* one write of the return character; such a read is never the one the prompt
\* is taken from; and the retries have no counter: every banner read made
\* within the read timeout starts one, so that r banner reads only need
\* r - 1 retries to fit in the read timeout.
C28_BannerRetry ==
    /\ [][BannerRetryStep]_vars
    /\ [](\A i \in BannerReads :
            /\ i + 1 <= Len(io) => io[i + 1] = Ev("clear", <<>>)
            /\ i + 2 <= Len(io) => io[i + 2] = Ev("write", RETURN)
            /\ (pc = "done" /\ outcome = "return") => \E j \in Reads : j > i + 2)
    /\ [](pc \in {"fp_break", "done"} /\ outcome \in {"none", "return"} /\ Reads # {}
            => ~IsTransient(prompt))
    /\ [](BannerReads # {}
            => (Cardinality(BannerReads) - 1) * RetryTicks < read_timeout)

\* C28 witness: two reads of one call held the banner, and the second one too
\* was followed by the clear and the write of the return character
C28_Witness ==
    /\ pc = "fp_loop"
    /\ Cardinality(BannerReads) = 2
    /\ Len(io) >= 3
    /\ io[Len(io) - 2].op = "read" /\ IsTransient(Strip(io[Len(io) - 2].data))
    /\ io[Len(io) - 1] = Ev("clear", <<>>)
    /\ io[Len(io)] = Ev("write", RETURN)

---------------------------------------------------------------------------
(* Claims about send_command and the slow-operation banner                 *)

\* the command of the caller has been written to the channel
CommandWritten ==
    \E i \in 1..Len(io) : io[i] = Ev("write", NormalizeCmd(ShowCommand))

\* the clock reading taken when the caller's command was written: start_time of
\* the outermost call
WrittenAt == IF stack = <<>> THEN start_time ELSE stack[1].start_time

\* some read of the call held the slow-operation banner
BannerSeen ==
    \E i \in 1..Len(io) : io[i].op = "read" /\ Contains(config_large_msg, io[i].data)

\* C29: a send_command call that has written its command returns or raises no
\* later than self.read_timeout plus one poll interval after the command was
\* written, also when the slow-operation banner appears in the output.
C29_Bounded ==
    (CommandWritten /\ pc = "done") => now - WrittenAt <= read_timeout + LOOP_DELAY

\* the part of C29 that holds: the bound, for the calls in which no read held
\* the banner
C29_BoundedWithoutBanner ==
    (CommandWritten /\ pc = "done" /\ ~BannerSeen)
      => now - WrittenAt <= read_timeout + LOOP_DELAY

\* a step of send_command that leaves text in the output: a read of the loop
\* that returned text, or the read appended when the nested call has returned
AccumulatingStep ==
    \/ pc = "sc_read" /\ new_data' # <<>> /\ pc' # pc
    \/ pc = "sc_break" /\ stack # <<>> /\ pc' # pc

\* the output holds the slow-operation banner and not the pattern
BannerOnly(out, p) == Contains(config_large_msg, out) /\ ~SearchSend(p, out)

\* the nested call: the frame is pushed, no prompt is searched, the buffer is
\* cleared and the bare return character is written
NestedCallStep ==
    /\ (pc = "sc_nested" /\ pc' # pc)
         => /\ pc' = "sc_prompt"
            /\ command_string' = RETURN
            /\ Len(stack') = Len(stack) + 1
            /\ io' = io
    /\ (pc = "sc_prompt" /\ pc' # pc /\ stack # <<>>)
         => (pc' = "sc_write" /\ io' = io)
    /\ (pc = "sc_write" /\ pc' # pc /\ stack # <<>>)
         => \/ /\ pc' = "sc_loop"
               /\ io' = io \o <<Ev("clear", <<>>), Ev("write", RETURN)>>
            \/ /\ pc' = "done"
               /\ outcome' = "SessionDownException"

\* a call leaves its loop by the break only with its pattern in its output, and
\* send_command ends by a return of the outermost call or by an exception
NoEarlyCompletion ==
    /\ [](method = "send_command" /\ pc = "sc_break" => SearchSend(pattern, output))
    /\ [](method = "send_command" /\ pc = "done" /\ outcome = "return"
            => (stack = <<>> /\ SearchSend(pattern, output)))
    /\ [](method = "send_command" /\ pc = "done"
            => outcome \in {"return", "SessionDownException",
                            "PromptNotFoundException", "PatternNotFoundException"})

\* C30 (as claimed): whenever text is added to the output of send_command and
\* the output then holds the slow-operation banner and not the pattern, the
\* call writes a bare return character and goes on waiting; it does not return
\* before its pattern has been found.
C30_Original ==
    /\ [][(AccumulatingStep /\ BannerOnly(output', pattern')) => pc' = "sc_nested"]_vars
    /\ [][NestedCallStep]_vars
    /\ NoEarlyCompletion

\* what the amended C30 asks of one step of send_command
SlowBannerStep ==
    /\ (pc = "sc_read" /\ new_data' # <<>> /\ pc' # pc /\ BannerOnly(output', pattern))
         => (pc' = "sc_nested" /\ outcome' = "none")
    /\ (pc = "sc_read" /\ new_data' = <<>> /\ pc' # pc)
         => (pc' = "sc_loop" /\ io' = Append(io, Ev("read", <<>>)))
    /\ (pc = "sc_break" /\ stack # <<>> /\ pc' # pc)
         => /\ pc' \in {"sc_break", "sc_loop"}
            /\ pc' = "sc_break" <=> SearchSend(pattern', output')
            /\ outcome' = "none"

\* C30 (amended): when a read of the loop returns text and the output then
\* holds the slow-operation banner and not the pattern, send_command writes a
\* bare return character (the call it makes to itself) and goes on waiting; the
\* read appended when that call has returned is searched for the pattern only,
\* and a read that returns nothing is followed by the sleep, so a banner that
\* arrives with that read is answered when a later read returns text.  A call
\* leaves its loop by the break only with its pattern found in its output:
\* send_command returns only when the caller's pattern has been found, and ends
\* otherwise with the timeout error or SessionDownException.
C30_SlowBanner ==
    /\ [][SlowBannerStep]_vars
    /\ [][NestedCallStep]_vars
    /\ NoEarlyCompletion

\* C30 witness: the banner was read without the pattern, the bare return was
\* written after the command, and the call returned once its pattern was found
C30_Witness ==
    /\ pc = "done" /\ outcome = "return" /\ stack = <<>>
    /\ expect_string = "#$"
    /\ BannerSeen
    /\ \E i \in 1..Len(io) : \E j \in (i + 1)..Len(io) :
          /\ io[i] = Ev("write", NormalizeCmd(ShowCommand))
          /\ io[j] = Ev("write", RETURN)

\* the position in the text log of the write of the caller's command
CommandAt ==
    CHOOSE i \in 1..Len(io) : io[i] = Ev("write", NormalizeCmd(ShowCommand))

\* some read of the call held a backspace (the echo was repainted)
BackspaceSeen ==
    \E i \in 1..Len(io) : io[i].op = "read" /\ Contains(<<BACKSPACE_CHAR>>, io[i].data)

\* send_command has returned to its caller
SendReturned ==
    /\ method = "send_command"
    /\ pc = "done" /\ outcome = "return" /\ stack = <<>>
    /\ CommandWritten

\* C31: when send_command returns, its output before sanitizing is the
\* concatenation, in order, of every chunk read from the channel since the
\* command was written (the echo line not being repainted); nothing read
\* earlier in the call is lost when the slow-operation banner branch runs.
C31_NothingLost ==
    (SendReturned /\ ~BackspaceSeen)
      => NormalizeLinefeeds(output) = NormalizeLinefeeds(ReadsFrom(CommandAt + 1))

\* the part of C31 that holds: the calls in which no read held the banner
C31_NothingLostWithoutBanner ==
    (SendReturned /\ ~BackspaceSeen /\ ~BannerSeen)
      => output = ReadsFrom(CommandAt + 1)

---------------------------------------------------------------------------
(* Claims about the config-mode calls, continued                           *)

\* the text holds the prompt of mode m
HoldsPrompt(m, out) == Contains(Tail(PromptFor(m)), out)

\* the caller's first check_config_mode() has returned
FirstCheckReturned == pc = "cfg_call" /\ outcome = "none" /\ method = "config_mode"

\* what C32 asks of the value of check_config_mode
AdminIsNotConfig ==
    /\ (HoldsPrompt("admin", new_data) /\ ~\E m \in ConfigModes : HoldsPrompt(m, new_data))
         => ~pre_check
    /\ (\E m \in ConfigModes : HoldsPrompt(m, new_data)) => pre_check

\* C32: check_config_mode returns false when the prompt read is the
\* administrative exec prompt '(admin)#' and true when it is a config prompt,
\* '(config)#' or '(admin-config)#', in CiscoXrBase and in CiscoVxrSSH.
C32_AdminPrompt == FirstCheckReturned => AdminIsNotConfig

\* the part of C32 that holds: CiscoXrBase, which removes '(admin)' first
C32_AdminPromptXr == (FirstCheckReturned /\ impl = "xr") => AdminIsNotConfig

\* the discard confirmation as it is written
discard_cmd == NormalizeCmd(<<"no">>)

\* the positions of the text log where text t was written
WritesOf(t) == { i \in 1..Len(io) : io[i] = Ev("write", t) }

\* some read made after the exit command held the banner
UncommittedRead ==
    \E i \in WritesOf(NormalizeCmd(exit_config)) : \E j \in (i + 1)..Len(io) :
        io[j].op = "read" /\ Contains(<<"Uncommitted">>, io[j].data)

\* one step of exit_config_mode that writes the discard confirmation
DiscardStep ==
    (method = "config_mode" /\ io' # io /\ WritesOf(discard_cmd)' # WritesOf(discard_cmd))
      => /\ pc = "exit_dialog"
         /\ Contains(<<"Uncommitted">>, output)
         /\ WritesOf(discard_cmd) = {}
         /\ WritesOf(NormalizeCmd(exit_config)) # {}
         /\ \/ outcome' = "none" /\ SearchMode(DiscardPattern(impl), new_data')
            \/ outcome' \in {"SessionDownException", "PatternNotFoundException"} /\ pc' = "done"

\* C33: exit_config_mode writes the discard confirmation 'no' at most once, in
\* a step taken after the exit command with 'Uncommitted' in the output read
\* since that command, and the same step waits for the prompt (it goes on only
\* with the prompt pattern matched, and raises otherwise); with no banner read
\* after the exit command, 'no' is never written.
C33_DiscardOnce ==
    /\ [][DiscardStep]_vars
    /\ [](method = "config_mode" => Cardinality(WritesOf(discard_cmd)) <= 1)
    /\ [](method = "config_mode" /\ WritesOf(discard_cmd) # {} => UncommittedRead)
    /\ [](method = "config_mode" /\ ~UncommittedRead => WritesOf(discard_cmd) = {})

\* C33 witness: the banner was read after the exit command, 'no' was written
\* once and the call returned
C33_Witness ==
    /\ method = "config_mode"
    /\ pc = "done" /\ outcome = "return"
    /\ UncommittedRead
    /\ Cardinality(WritesOf(discard_cmd)) = 1

---------------------------------------------------------------------------
(* Claims about commit, continued                                          *)

\* the modifier keywords of the call, each with the space before it, in the
\* order the replacements leave them in
ModifierWords(a) ==
    (IF a.replace THEN <<SP, "replace">> ELSE <<>>)
    \o (IF a.best_effort THEN <<SP, "best-effort">> ELSE <<>>)
    \o (IF a.force THEN <<SP, "force">> ELSE <<>>)

\* the word 'commit' occurs in the label or in the comment
CommitInText(a) == Contains(<<"commit">>, a.label) \/ Contains(<<"commit">>, a.comment)

\* commit was called with a modifier and has built its command
ModifiedCall ==
    /\ method = "commit"
    /\ Accepted
    /\ args.force \/ args.best_effort \/ args.replace

\* C34: with force, best_effort or replace set, the command is the unmodified
\* command with the modifier keywords inserted directly after the leading verb
\* 'commit' and the rest (label, comment, confirm delay) unchanged, for every
\* label and comment, those that hold the word 'commit' included.
C34_ModifiersAfterVerb ==
    ModifiedCall
      => command_string =
           <<"commit">> \o ModifierWords(args) \o Tail(BaseCommand(impl, args))

\* the part of C34 that holds: labels and comments without the word 'commit'
C34_ModifiersPlainText ==
    (ModifiedCall /\ ~CommitInText(args))
      => command_string =
           <<"commit">> \o ModifierWords(args) \o Tail(BaseCommand(impl, args))

\* the confirmation of the replace path as it is written
yes_cmd == NormalizeCmd(<<"yes">>)

\* the banner was read in answer to the commit command: the command was
\* written, and a later read, at or before position k, held the banner
BannerAnswered(k) ==
    \E i \in WritesOf(NormalizeCmd(command_string)) : \E j \in (i + 1)..k :
        io[j].op = "read" /\ Contains(commit_replace_marker, io[j].data)

\* the banner has been read in answer to the commit command
BannerRead == BannerAnswered(Len(io))

\* commit runs on the replace path
ReplacePath == method = "commit" /\ args.replace /\ Accepted

\* C35: on the replace path of commit every write of the confirmation 'yes'
\* comes after a read, made in answer to the commit command, that held the
\* destructive-change banner; a step whose wait for the banner ends in the
\* timeout error or in SessionDownException ends the call, and 'yes' is not
\* written in it or after it.
C35_YesAfterBanner ==
    /\ [](ReplacePath => \A k \in WritesOf(yes_cmd) : BannerAnswered(k - 1))
    /\ [][(ReplacePath /\ pc \in {"xr_send", "vx_send"} /\ pc' # pc
             /\ outcome' \in {"PatternNotFoundException", "SessionDownException"})
          => (pc' = "done" /\ WritesOf(yes_cmd)' = {})]_vars
    /\ [][(ReplacePath /\ pc \in {"xr_send", "vx_send"} /\ pc' # pc /\ outcome' = "none")
          => (pc' \in {"xr_confirm", "vx_yes"} /\ BannerRead')]_vars
    /\ [](ReplacePath /\ pc = "done" /\ ~BannerRead => WritesOf(yes_cmd) = {})

\* C35 witness: the banner was read, 'yes' was written and commit returned
C35_Witness ==
    /\ ReplacePath
    /\ pc = "done" /\ outcome = "return"
    /\ WritesOf(yes_cmd) # {}
    /\ \A k \in WritesOf(yes_cmd) : BannerAnswered(k - 1)

\* the affirmative reply to the confirmation sub-prompt as it is written
y_cmd == NormalizeCmd(<<"y">>)

\* the read at position j is the device's answer to the commit command and
\* holds the confirmation sub-prompt
ConfirmAsked(j) ==
    /\ j > 1 /\ j <= Len(io)
    /\ io[j].op = "read" /\ Contains(<<"onfirm">>, io[j].data)
    /\ io[j - 1] = Ev("write", NormalizeCmd(command_string))

\* commit runs on the path without replace
PlainPath == method = "commit" /\ ~args.replace /\ Accepted

\* what C36 asks when the sub-prompt was the answer to the commit command
ConfirmAnswered ==
    \A j \in 1..Len(io) :
        (ConfirmAsked(j) /\ pc # "xr_confirm" /\ outcome # "SessionDownException")
          => /\ outcome # "PatternNotFoundException" \/ j + 1 <= Len(io)
             /\ j + 1 <= Len(io) /\ io[j + 1] = Ev("write", y_cmd)

\* C36: on the path without replace, when the device answers the commit command
\* with the confirmation sub-prompt ('Confirm? [y/n]'), commit writes the
\* affirmative reply and waits for the prompt, in CiscoXrBase and in
\* CiscoVxrSSH; it does not end with the timeout error on the unanswered
\* sub-prompt.
C36_ConfirmReplied == PlainPath => ConfirmAnswered

\* the part of C36 that holds: CiscoXrBase.commit
C36_ConfirmRepliedXr == (PlainPath /\ impl = "xr") => ConfirmAnswered

\* the caller's mapping has a reply for the conflict marker
HasReply ==
    /\ args.commit_error_dialog_dict.present
    /\ alt_error_marker \in DOMAIN args.commit_error_dialog_dict.map

\* the reply the caller's mapping gives for the conflict marker
MappedReply == args.commit_error_dialog_dict.map[alt_error_marker]

\* the texts written after the first read that held the conflict marker
RepliesToConflict ==
    LET R == { j \in 1..Len(io) :
                 io[j].op = "read" /\ Contains(alt_error_marker, io[j].data) }
    IN  IF R = {} THEN {}
        ELSE LET first == CHOOSE j \in R : \A k \in R : j <= k
             IN  { io[k].data : k \in { n \in (first + 1)..Len(io) : io[n].op = "write" } }

\* commit has ended after finding the conflict marker in the gathered output
ConflictEnded ==
    /\ method = "commit"
    /\ pc = "done"
    /\ Contains(alt_error_marker, commit_reply)

\* the ConfigCommitError of the conflict has been raised
ConflictRaised == outcome = "ConfigCommitError" /\ msg = ConflictMsg(impl, output)

\* the last read of the call ended with the config prompt
PromptFollowed == io[Len(io)].op = "read" /\ EndsWithRe(io[Len(io)].data, <<")", "#">>)

\* C37 (as claimed): with the conflict marker in the output of commit, on a
\* channel that stays open: when the mapping has a reply for the marker, commit
\* writes that reply and nothing else, and does not raise the ConfigCommitError
\* of the conflict; when it has none, commit writes 'no' and raises that
\* ConfigCommitError.
C37_Original ==
    (ConflictEnded /\ ~closed)
      => IF HasReply
         THEN /\ RepliesToConflict = {NormalizeCmd(MappedReply)}
              /\ ~ConflictRaised
         ELSE /\ RepliesToConflict = {NormalizeCmd(<<"no">>)}
              /\ ConflictRaised

\* C37 (amended): with the conflict marker in the output of commit, the only
\* text written afterwards is the mapped reply when the mapping has one and
\* 'no' when it has none, and nothing is written when the channel is closed.
\* With a mapped reply commit waits for the config prompt: it returns only
\* after a read that ends with it, and never raises the ConfigCommitError of
\* the conflict.  With no mapped reply the ConfigCommitError of the conflict is
\* raised after the 'no' was written, unless the exchange of the 'no' fails:
\* SessionDownException, or in CiscoVxrSSH PatternNotFoundException when no
\* config prompt follows.
C37_ReplyChoice ==
    ConflictEnded
      => /\ RepliesToConflict \subseteq
              {NormalizeCmd(IF HasReply THEN MappedReply ELSE <<"no">>)}
         /\ RepliesToConflict = {} => (closed /\ outcome = "SessionDownException")
         /\ HasReply
              => /\ ~ConflictRaised
                 /\ outcome = "return" => PromptFollowed
                 /\ outcome \in {"return", "ConfigCommitError", "SessionDownException",
                                 "PatternNotFoundException"}
         /\ ~HasReply
              => /\ outcome \in {"ConfigCommitError", "SessionDownException",
                                 "PatternNotFoundException"}
                 /\ outcome = "ConfigCommitError"
                      => (ConflictRaised /\ RepliesToConflict = {NormalizeCmd(<<"no">>)})
                 /\ outcome = "PatternNotFoundException" => impl = "vxr"

\* C37 witness: the conflict marker was read, the mapped reply was written and
\* commit returned
C37_Witness ==
    /\ ConflictEnded /\ HasReply
    /\ outcome = "return"
    /\ RepliesToConflict = {NormalizeCmd(MappedReply)}

---------------------------------------------------------------------------
(* Claims about send_config_set, continued                                 *)

\* a step of the command loop of send_config_set that writes a line
CommandStep == method = "send_config_set" /\ pc = "scs_loop" /\ io' # io

\* the order of the lines, the wait between them, and the end of the call at
\* the first wait that fails
OrderAndWaitStep ==
    /\ CommandStep
         => /\ scs.todo # <<>>
            /\ io'[Len(io) + 1] = Ev("write", NormalizeCmd(Head(scs.todo)))
            /\ \A k \in (Len(io) + 2)..Len(io') : io'[k].op = "read"
            /\ scs'.todo = Tail(scs.todo)
            /\ outcome' = "none" => (pc' = "scs_loop" /\ SearchMode("\\)#$", new_data'))
            /\ outcome' # "none" => pc' = "done"
    /\ (method = "send_config_set" /\ pc = "done") => io' = io

\* the device is in config mode when the first line is written
EnteredFirstStep ==
    (CommandStep /\ Head(scs.todo) = ConfigLineA) => mode \in ConfigModes

\* C38: send_config_set has put the device in config mode when it writes the
\* first command; it writes the lines of the commands in the order given; it
\* writes the next line only when the wait after the previous one has matched
\* the config prompt pattern; and when a wait fails the call ends and no later
\* line is written.
C38_CommandsInOrder == [][EnteredFirstStep /\ OrderAndWaitStep]_vars

\* the part of C38 that holds on every device
C38_OrderAndWaits == [][OrderAndWaitStep]_vars

\* the first part of C38 holds on a device that is not in administrative exec
\* mode when the first line is written
C38_EnteredUnlessAdmin ==
    [][(CommandStep /\ Head(scs.todo) = ConfigLineA) => mode \in ConfigModes \cup {"admin"}]_vars

---------------------------------------------------------------------------
(* Claims about the login dialogs: the ways telnet_login ends              *)

\* CiscoBaseConnection.telnet_login has ended
LoginEnded == dialog = "telnet_login" /\ pc = "done"

\* C39: every run of CiscoBaseConnection.telnet_login that ends, ends with the
\* return of the dialog text or with NetmikoAuthenticationException; no other
\* exception leaves it, also when find_prompt_special_case finds no prompt
\* after an empty read.
C39_TwoEndings ==
    LoginEnded => outcome \in {"return", "NetmikoAuthenticationException"}

\* what holds instead: the two endings, the ValueError of
\* find_prompt_special_case, and the EOFError of the operations outside the try
C39_FourEndings ==
    LoginEnded
      => /\ outcome \in {"return", "NetmikoAuthenticationException", "ValueError",
                         "EOFError"}
         /\ outcome = "ValueError" => ~closed

---------------------------------------------------------------------------
(* Claims about set_base_prompt                                            *)

\* the prompt the last find_prompt call of set_base_prompt returned
Detected == io[Len(io)].data

SetPromptReturned ==
    method = "set_base_prompt" /\ pc = "done" /\ outcome = "return"

\* the detected prompt without its final character, which is a terminator
TerminatorRemoved ==
    /\ base_prompt = SubSeq(Detected, 1, Len(Detected) - 1)
    /\ Detected[Len(Detected)] \in {"#", ">"}

\* a step of set_base_prompt that does not return leaves base_prompt alone
KeepsBasePromptStep ==
    (method = "set_base_prompt" /\ outcome' # "return") => base_prompt' = base_prompt

\* the second find_prompt returned a line that does not end in a terminator
NoTerminatorStep ==
    (/\ method = "set_base_prompt"
     /\ pc = "sbp_find"
     /\ io' # io
     /\ io'[Len(io')].op = "read"
     /\ io'[Len(io')].data[Len(io'[Len(io')].data)] \notin {"#", ">"})
      => outcome' = "PromptNotFoundException"

SetPromptSuccess ==
    SetPromptReturned
      => /\ io[Len(io)].op = "read"
         /\ ret = base_prompt
         /\ IF Contains(<<standby_prompt>>, Detected)
            THEN base_prompt = Detected
            ELSE TerminatorRemoved

\* C40: when CiscoXrTelnet.set_base_prompt returns, base_prompt is the detected
\* prompt without its final terminator character, or the whole detected text on
\* a standby node; when the detected prompt does not end in a terminator the
\* call raises PromptNotFoundException, and a call that raises leaves
\* base_prompt as it was before the call.
C40_BasePrompt ==
    [][/\ SetPromptSuccess'
       /\ NoTerminatorStep
       /\ KeepsBasePromptStep]_vars

\* C40 witnesses: a prompt with a terminator inside but not at its end was
\* refused; a configuration prompt was accepted and its '#' removed
C40_Witness ==
    /\ method = "set_base_prompt"
    /\ pc = "done"
    /\ outcome = "PromptNotFoundException"
    /\ io[Len(io)].op = "read"
    /\ Detected = <<"Router", "#", "$">>

C40_AcceptedSeen ==
    /\ SetPromptReturned
    /\ Detected = <<"Router", "(", "config", ")", "#">>
    /\ base_prompt = <<"Router", "(", "config", ")">>

C40_StandbySeen ==
    /\ SetPromptReturned
    /\ base_prompt = <<standby_prompt, "ready">>

=============================================================================
